---------------------------- MODULE Spec2Model ----------------------------
(***************************************************************************)
(* A model of fastproto's pure-Python protobuf wire-format codec           *)
(* (python/fastproto/fastproto/_pure.py): the varint, zigzag and tag       *)
(* codecs, the Field accessors, the Reader and the Writer.                 *)
(*                                                                         *)
(* Python integers are unbounded, and the codec works on 64-bit values,    *)
(* which do not fit the model checker's machine integers.  A Python int is *)
(* therefore modelled as an infinite two's-complement bit string: a record *)
(* [s, b] where b is the finite sequence of low-order bits (least          *)
(* significant first) and s is the bit that repeats for ever above them.   *)
(* The representation is kept canonical (b never ends in s), so equality   *)
(* of records is equality of integers.  Bytes, buffer offsets and shift    *)
(* counts are small and stay machine integers.                             *)
(***************************************************************************)
EXTENDS Integers, Sequences, FiniteSets, TLC

VARIABLES
    cop,    \* codec harness: the function applied last ("none" at start)
    carg,   \* codec harness: the argument it was applied to
    cres,   \* codec harness: what it returned
    csrc    \* codec harness: the call whose result carg is ([op, arg]), if any

VARIABLES
    writers,  \* the Writer objects made so far: [buffer, parent, field_num];
              \* writers[1] is the root Writer, parent = 0 stands for None
    wlog,     \* every Writer method call made so far, with its outcome
    readers,  \* the Reader objects made so far: [data, pos, len]
    rsrc,     \* the bytes the root Reader was made from: [how, full]
    origin,   \* origin[r] = <<q, i>>: Reader r was made by message() on the
              \* i-th Field that Reader q returned; <<0, 0>> for the root Reader
    yielded,  \* yielded[r]: the Fields Reader r has returned, in order
    skipped,  \* skipped[r]: the number of skip() calls on r that returned True
    rres,     \* the outcome of the last Reader call
    ares      \* the outcome of the last Field accessor call

cvars == <<cop, carg, cres, csrc>>
wvars == <<writers, wlog>>
rvars == <<readers, rsrc, origin, yielded, skipped, rres, ares>>
vars == <<cvars, wvars, rvars>>

-----------------------------------------------------------------------------
(* Python int arithmetic on two's-complement bit strings.                  *)

Max2(a, b) == IF a >= b THEN a ELSE b

\* bs without the bits at its top that equal s.
RECURSIVE TopLen(_, _, _)
TopLen(bs, s, n) == IF n = 0 \/ bs[n] # s THEN n ELSE TopLen(bs, s, n - 1)
StripTop(bs, s) == SubSeq(bs, 1, TopLen(bs, s, Len(bs)))

\* The canonical integer with sign bit s and low bits bs.
Norm(s, bs) == [s |-> s, b |-> StripTop(bs, s)]

\* Bit i (i >= 0) of x, sign-extended.
BitAt(x, i) == IF i < Len(x.b) THEN x.b[i + 1] ELSE x.s

\* A machine natural as a Python int.
RECURSIVE NatBits(_)
NatBits(n) == IF n = 0 THEN <<>> ELSE <<n % 2>> \o NatBits(n \div 2)
FromNat(n) == [s |-> 0, b |-> NatBits(n)]

\* A small non-negative Python int as a machine natural.
RECURSIVE BitsNat(_)
BitsNat(bs) == IF bs = <<>> THEN 0 ELSE bs[1] + 2 * BitsNat(Tail(bs))
ToNat(x) == BitsNat(x.b)

Zero == [s |-> 0, b |-> <<>>]
One == [s |-> 0, b |-> <<1>>]
MinusOne == [s |-> 1, b |-> <<>>]

\* 2^k and 2^k - 1.
Pow2(k) == [s |-> 0, b |-> [i \in 1..(k + 1) |-> IF i = k + 1 THEN 1 ELSE 0]]
Ones(k) == [s |-> 0, b |-> [i \in 1..k |-> 1]]

IsNeg(x) == x.s = 1

Min2(a, b) == IF a <= b THEN a ELSE b

\* A bitwise operation, given by its truth table tt (the results for the bit
\* pairs 00, 01, 10, 11), on the n low bits and on the sign bits.
BitOp(x, y, n, tt) ==
    Norm(tt[2 * x.s + y.s + 1],
         [i \in 1..n |-> tt[2 * BitAt(x, i - 1) + BitAt(y, i - 1) + 1]])

AndBit == <<0, 0, 0, 1>>
OrBit == <<0, 1, 1, 1>>
XorBit == <<0, 1, 1, 0>>

\* Above the bits of a non-negative operand x & y is all zeros.
PyAnd(x, y) ==
    BitOp(x, y,
          IF x.s = 0 /\ y.s = 0 THEN Min2(Len(x.b), Len(y.b))
          ELSE IF x.s = 0 THEN Len(x.b)
          ELSE IF y.s = 0 THEN Len(y.b)
          ELSE Max2(Len(x.b), Len(y.b)),
          AndBit)
PyOr(x, y) == BitOp(x, y, Max2(Len(x.b), Len(y.b)), OrBit)
PyXor(x, y) == BitOp(x, y, Max2(Len(x.b), Len(y.b)), XorBit)
PyNot(x) == [s |-> 1 - x.s, b |-> [i \in 1..Len(x.b) |-> 1 - x.b[i]]]

\* x << k and x >> k (arithmetic), k >= 0.
PyShl(x, k) ==
    Norm(x.s, [i \in 1..(Len(x.b) + k) |-> IF i <= k THEN 0 ELSE x.b[i - k]])
PyShr(x, k) ==
    IF k >= Len(x.b) THEN [s |-> x.s, b |-> <<>>]
    ELSE [s |-> x.s, b |-> SubSeq(x.b, k + 1, Len(x.b))]

\* x + y by ripple carry over the operands sign-extended to n bits.
RECURSIVE AddFrom(_, _, _, _, _)
AddFrom(x, y, i, n, c) ==
    IF i = n THEN <<>>
    ELSE LET t == BitAt(x, i) + BitAt(y, i) + c
         IN  IF t >= 2 THEN <<t - 2>> \o AddFrom(x, y, i + 1, n, 1)
             ELSE <<t>> \o AddFrom(x, y, i + 1, n, 0)

PyAdd(x, y) ==
    LET n == Max2(Len(x.b), Len(y.b)) + 2
        sum == AddFrom(x, y, 0, n, 0)
    IN  Norm(sum[n], SubSeq(sum, 1, n - 1))

PyNeg(x) == PyAdd(PyNot(x), One)
PySub(x, y) == PyAdd(x, PyNeg(y))

\* x < y: by sign, then by length, then by the highest bit that differs.
PyLt(x, y) ==
    IF x.s # y.s THEN x.s = 1
    ELSE IF Len(x.b) # Len(y.b)
    THEN IF x.s = 0 THEN Len(x.b) < Len(y.b) ELSE Len(x.b) > Len(y.b)
    ELSE \E i \in 1..Len(x.b) :
            /\ x.b[i] < y.b[i]
            /\ \A j \in (i + 1)..Len(x.b) : x.b[j] = y.b[j]
PyGt(x, y) == PyLt(y, x)
PyLe(x, y) == ~PyLt(y, x)
PyGe(x, y) == ~PyLt(x, y)

\* The number of bits of a non-negative x (Python's int.bit_length).
BitLength(x) == Len(x.b)


-----------------------------------------------------------------------------
(* Wire types (fastproto.WireType) and the integer bounds the code names.  *)

VARINT == 0
FIXED64 == 1
LEN == 2
FIXED32 == 5
WireTypes == {VARINT, FIXED64, LEN, FIXED32}

Mask7 == Ones(7)        \* 0x7F
Mask32 == Ones(32)      \* 0xFFFFFFFF
Mask64 == Ones(64)      \* 0xFFFFFFFFFFFFFFFF
MaxInt32 == Ones(31)    \* 0x7FFFFFFF
MaxInt64 == Ones(63)    \* 0x7FFFFFFFFFFFFFFF
MaxFieldNumber == Ones(29)  \* 0x1FFFFFFF

\* The ranges of the 32- and 64-bit kinds.
MinInt32 == PyNeg(Pow2(31))
MinInt64 == PyNeg(Pow2(63))
InI32(v) == PyGe(v, MinInt32) /\ PyLe(v, MaxInt32)
InI64(v) == PyGe(v, MinInt64) /\ PyLe(v, MaxInt64)
InU32(v) == ~IsNeg(v) /\ PyLe(v, Mask32)
InU64(v) == ~IsNeg(v) /\ PyLe(v, Mask64)

-----------------------------------------------------------------------------
(* Tag codec.  A result record carries err = "" on success and the text of *)
(* the ValueError otherwise.                                               *)

\* make_tag with the ceiling test off by one (>= for >).
make_tag_excl(field_number, wire_type) ==
    IF PyLt(field_number, One)
    THEN [err |-> "field_number must be >= 1", tag |-> Zero]
    ELSE IF PyGe(field_number, MaxFieldNumber)
    THEN [err |-> "field_number too large", tag |-> Zero]
    ELSE [err |-> "", tag |-> PyOr(PyShl(field_number, 3), FromNat(wire_type))]

make_tag(field_number, wire_type) ==
    IF PyLt(field_number, One)
    THEN [err |-> "field_number must be >= 1", tag |-> Zero]
    ELSE IF PyGt(field_number, MaxFieldNumber)
    THEN [err |-> "field_number too large", tag |-> Zero]
    ELSE [err |-> "", tag |-> PyOr(PyShl(field_number, 3), FromNat(wire_type))]

\* parse_tag letting every wire type id up to FIXED32 through.
parse_tag_upto5(tag) ==
    LET wire_type == ToNat(PyAnd(tag, FromNat(7)))
        field_number == PyShr(tag, 3)
    IN  IF PyLt(field_number, One)
        THEN [err |-> "invalid field number", field_number |-> field_number,
              wire_type |-> wire_type]
        ELSE IF wire_type > FIXED32
        THEN [err |-> "invalid wire type", field_number |-> field_number,
              wire_type |-> wire_type]
        ELSE [err |-> "", field_number |-> field_number, wire_type |-> wire_type]

parse_tag(tag) ==
    LET wire_type == ToNat(PyAnd(tag, FromNat(7)))
        field_number == PyShr(tag, 3)
    IN  IF PyLt(field_number, One)
        THEN [err |-> "invalid field number", field_number |-> field_number,
              wire_type |-> wire_type]
        ELSE IF wire_type \notin WireTypes
        THEN [err |-> "invalid wire type", field_number |-> field_number,
              wire_type |-> wire_type]
        ELSE [err |-> "", field_number |-> field_number, wire_type |-> wire_type]

-----------------------------------------------------------------------------
(* Varint codec.  Buffers are sequences of bytes (0..255); offsets are     *)
(* 0-based as in the code, so data[pos] is the sequence element pos + 1.   *)

\* The encoding loop with its test off by one (>= 0x7F for > 0x7F).
RECURSIVE encode_varint_loop_ge(_)
encode_varint_loop_ge(value) ==
    IF PyGe(value, Mask7)
    THEN <<ToNat(PyOr(PyAnd(value, Mask7), FromNat(128)))>>
             \o encode_varint_loop_ge(PyShr(value, 7))
    ELSE <<ToNat(value)>>

RECURSIVE encode_varint_loop(_)
encode_varint_loop(value) ==
    IF PyGt(value, Mask7)
    THEN <<ToNat(PyOr(PyAnd(value, Mask7), FromNat(128)))>>
             \o encode_varint_loop(PyShr(value, 7))
    ELSE <<ToNat(value)>>

\* encode_varint reducing negative values to 32 bits instead of 64.
encode_varint_mask32(value) ==
    encode_varint_loop(IF IsNeg(value) THEN PyAnd(value, Mask32) ELSE value)

encode_varint(value) ==
    encode_varint_loop(IF IsNeg(value) THEN PyAnd(value, Mask64) ELSE value)

RECURSIVE decode_varint_loop(_, _, _, _)
decode_varint_loop(data, pos, result, shift) ==
    IF pos >= Len(data)
    THEN [err |-> "truncated varint", value |-> Zero, pos |-> pos]
    ELSE LET byte == data[pos + 1]
             r2 == PyOr(result, PyShl(PyAnd(FromNat(byte), Mask7), shift))
         IN  IF PyAnd(FromNat(byte), FromNat(128)) = Zero
             THEN [err |-> "", value |-> r2, pos |-> pos + 1]
             ELSE IF shift + 7 >= 64
             THEN [err |-> "varint too long", value |-> Zero, pos |-> pos + 1]
             ELSE decode_varint_loop(data, pos + 1, r2, shift + 7)

\* decode_varint testing the shift before advancing it, which lets an
\* eleventh byte through.
RECURSIVE decode_varint_late_loop(_, _, _, _)
decode_varint_late_loop(data, pos, result, shift) ==
    IF pos >= Len(data)
    THEN [err |-> "truncated varint", value |-> Zero, pos |-> pos]
    ELSE LET byte == data[pos + 1]
             r2 == PyOr(result, PyShl(PyAnd(FromNat(byte), Mask7), shift))
         IN  IF PyAnd(FromNat(byte), FromNat(128)) = Zero
             THEN [err |-> "", value |-> r2, pos |-> pos + 1]
             ELSE IF shift >= 64
             THEN [err |-> "varint too long", value |-> Zero, pos |-> pos + 1]
             ELSE decode_varint_late_loop(data, pos + 1, r2, shift + 7)
decode_varint_late(data, offset) == decode_varint_late_loop(data, offset, Zero, 0)

decode_varint(data, offset) == decode_varint_loop(data, offset, Zero, 0)

-----------------------------------------------------------------------------
(* Zigzag transform.                                                       *)

\* zigzag_encode with the 32-bit shift.
zigzag_encode_31(value) == PyXor(PyShl(value, 1), PyShr(value, 31))

zigzag_encode(value) == PyXor(PyShl(value, 1), PyShr(value, 63))

zigzag_decode(value) == PyXor(PyShr(value, 1), PyNeg(PyAnd(value, One)))


-----------------------------------------------------------------------------
(* Fixed-width codec (struct.pack / struct.unpack_from, little-endian).    *)

\* The value of bits lo..lo+7 of x, as a byte.
RECURSIVE ByteOf(_, _, _)
ByteOf(x, lo, j) == IF j = 8 THEN 0 ELSE BitAt(x, lo + j) + 2 * ByteOf(x, lo, j + 1)

\* The n low-order bytes of x, least significant first.
PackLE(x, n) == [k \in 1..n |-> ByteOf(x, 8 * (k - 1), 0)]

\* The unsigned integer held in the n bytes of data from pos on.
UnpackLE(data, pos, n) ==
    Norm(0, [i \in 1..(8 * n) |->
                (data[pos + 1 + ((i - 1) \div 8)] \div (2 ^ ((i - 1) % 8))) % 2])

Packed(bytes) == [err |-> "", bytes |-> bytes]
PackError == [err |-> "struct.error", bytes |-> <<>>]

\* struct.pack refuses a value outside the range of its format.
struct_pack_I(value) ==
    IF ~IsNeg(value) /\ PyLe(value, Mask32) THEN Packed(PackLE(value, 4)) ELSE PackError
struct_pack_i(value) ==
    IF PyGe(value, MinInt32) /\ PyLe(value, MaxInt32)
    THEN Packed(PackLE(value, 4)) ELSE PackError
struct_pack_Q(value) ==
    IF ~IsNeg(value) /\ PyLe(value, Mask64) THEN Packed(PackLE(value, 8)) ELSE PackError
struct_pack_q(value) ==
    IF PyGe(value, MinInt64) /\ PyLe(value, MaxInt64)
    THEN Packed(PackLE(value, 8)) ELSE PackError

\* str.encode("utf-8"): a string is its sequence of code points.
utf8_char(c) ==
    IF c < 128 THEN <<c>>
    ELSE IF c < 2048 THEN <<192 + (c \div 64), 128 + (c % 64)>>
    ELSE IF c < 65536
    THEN <<224 + (c \div 4096), 128 + ((c \div 64) % 64), 128 + (c % 64)>>
    ELSE <<240 + (c \div 262144), 128 + ((c \div 4096) % 64),
           128 + ((c \div 64) % 64), 128 + (c % 64)>>

RECURSIVE utf8_encode(_)
utf8_encode(str) ==
    IF str = <<>> THEN <<>> ELSE utf8_char(Head(str)) \o utf8_encode(Tail(str))

\* bytes.decode("utf-8"), strict: [err, value] with the code points decoded.
\* The second byte of a sequence is confined by the lead byte (no overlong
\* forms, no surrogates, nothing above U+10FFFF).
IsCont(data, i) == i <= Len(data) /\ data[i] >= 128 /\ data[i] <= 191
SecondOk(lead, b) ==
    IF lead = 224 THEN b >= 160 /\ b <= 191
    ELSE IF lead = 237 THEN b >= 128 /\ b <= 159
    ELSE IF lead = 240 THEN b >= 144 /\ b <= 191
    ELSE IF lead = 244 THEN b >= 128 /\ b <= 143
    ELSE b >= 128 /\ b <= 191
DecodeError == [err |-> "UnicodeDecodeError", value |-> <<>>]

RECURSIVE utf8_decode_from(_, _, _)
utf8_decode_from(data, i, acc) ==
    IF i > Len(data) THEN [err |-> "", value |-> acc]
    ELSE LET b == data[i]
         IN  IF b < 128 THEN utf8_decode_from(data, i + 1, Append(acc, b))
             ELSE IF b >= 194 /\ b <= 223
             THEN IF IsCont(data, i + 1)
                  THEN utf8_decode_from(data, i + 2,
                           Append(acc, (b - 192) * 64 + (data[i + 1] - 128)))
                  ELSE DecodeError
             ELSE IF b >= 224 /\ b <= 239
             THEN IF /\ IsCont(data, i + 1) /\ SecondOk(b, data[i + 1])
                     /\ IsCont(data, i + 2)
                  THEN utf8_decode_from(data, i + 3,
                           Append(acc, (b - 224) * 4096 + (data[i + 1] - 128) * 64
                                           + (data[i + 2] - 128)))
                  ELSE DecodeError
             ELSE IF b >= 240 /\ b <= 244
             THEN IF /\ IsCont(data, i + 1) /\ SecondOk(b, data[i + 1])
                     /\ IsCont(data, i + 2) /\ IsCont(data, i + 3)
                  THEN utf8_decode_from(data, i + 4,
                           Append(acc, (b - 240) * 262144 + (data[i + 1] - 128) * 4096
                                           + (data[i + 2] - 128) * 64
                                           + (data[i + 3] - 128)))
                  ELSE DecodeError
             ELSE DecodeError
utf8_decode(data) == utf8_decode_from(data, 1, <<>>)

\* A Python float is represented by its IEEE 754 binary64 bit pattern.
PyFloat(bits) == [bits |-> bits]

\* sig / 2^shift rounded to the nearest integer, ties to even.
RoundShift(sig, shift) ==
    LET q == PyShr(sig, shift)
        rest == PyAnd(sig, Ones(shift))
        half == Pow2(shift - 1)
    IN  IF PyGt(rest, half) \/ (rest = half /\ BitAt(q, 0) = 1)
        THEN PyAdd(q, One) ELSE q

\* struct.pack("<d", value): the eight bytes of the bit pattern.
struct_pack_d(value) == Packed(PackLE(value.bits, 8))

\* struct.pack("<f", value): the double is narrowed to binary32, rounding to
\* nearest even; a finite value that rounds beyond the largest binary32 is
\* refused, a NaN keeps the top of its payload and becomes quiet.
struct_pack_f(value) ==
    LET x == value.bits
        sign == BitAt(x, 63)
        e == ToNat(PyAnd(PyShr(x, 52), Ones(11)))
        frac == PyAnd(x, Ones(52))
        inf == PyShl(FromNat(255), 23)
        mag == IF e = 2047
               THEN IF frac = Zero THEN inf
                    ELSE PyOr(inf, PyOr(Pow2(22), PyShr(frac, 29)))
               ELSE IF e >= 897
               THEN PyAdd(PyShl(FromNat(e - 896), 23), RoundShift(frac, 29))
               ELSE IF e >= 872
               THEN RoundShift(PyOr(Pow2(52), frac), 926 - e)
               ELSE Zero
    IN  IF e # 2047 /\ PyGe(mag, inf)
        THEN [err |-> "OverflowError", bytes |-> <<>>]
        ELSE Packed(PackLE(PyOr(PyShl(FromNat(sign), 31), mag), 4))

\* struct.unpack("<f", bytes): the binary32 widened to a double, exactly.
struct_unpack_f(bytes) ==
    LET x == UnpackLE(bytes, 0, 4)
        sign == BitAt(x, 31)
        e == ToNat(PyAnd(PyShr(x, 23), Ones(8)))
        frac == PyAnd(x, Ones(23))
        top == BitLength(frac) - 1
        inf == PyShl(FromNat(2047), 52)
        mag == IF e = 255
               THEN IF frac = Zero THEN inf
                    ELSE PyOr(inf, PyOr(Pow2(51), PyShl(frac, 29)))
               ELSE IF e > 0
               THEN PyOr(PyShl(FromNat(e + 896), 52), PyShl(frac, 29))
               ELSE IF frac = Zero THEN Zero
               ELSE PyOr(PyShl(FromNat(top + 874), 52),
                         PyShl(PySub(frac, Pow2(top)), 52 - top))
    IN  PyFloat(PyOr(PyShl(FromNat(sign), 63), mag))

\* struct.unpack("<d", bytes)
struct_unpack_d(bytes) == PyFloat(UnpackLE(bytes, 0, 8))

-----------------------------------------------------------------------------
(* Field: number, wire_type, _data (the payload of a LEN field, else       *)
(* empty) and _value (the decoded scalar, Zero standing for None).  An     *)
(* accessor returns [err, value].                                          *)

Field(number, wire_type, data, value) ==
    [number |-> number, wire_type |-> wire_type, data |-> data, value |-> value]

Got(value) == [err |-> "", value |-> value]
Mismatch == [err |-> "wire type mismatch", value |-> Zero]

\* Field.int32 without the sign extension.
Field_int32_unsigned(f) ==
    IF f.wire_type # VARINT THEN Mismatch ELSE Got(PyAnd(f.value, Mask32))

Field_int32(f) ==
    IF f.wire_type # VARINT THEN Mismatch
    ELSE LET value == PyAnd(f.value, Mask32)
         IN  Got(IF PyGt(value, MaxInt32) THEN PySub(value, Pow2(32)) ELSE value)

Field_int64(f) ==
    IF f.wire_type # VARINT THEN Mismatch
    ELSE Got(IF PyGt(f.value, MaxInt64) THEN PySub(f.value, Pow2(64)) ELSE f.value)

Field_uint32(f) ==
    IF f.wire_type # VARINT THEN Mismatch ELSE Got(PyAnd(f.value, Mask32))

Field_uint64(f) ==
    IF f.wire_type # VARINT THEN Mismatch ELSE Got(f.value)

Field_sint32(f) ==
    IF f.wire_type # VARINT THEN Mismatch
    ELSE LET value == zigzag_decode(PyAnd(f.value, Mask32))
         IN  Got(IF PyGt(value, MaxInt32) THEN PySub(value, Pow2(32)) ELSE value)

Field_sint64(f) ==
    IF f.wire_type # VARINT THEN Mismatch ELSE Got(zigzag_decode(f.value))

Field_bool(f) ==
    IF f.wire_type # VARINT THEN Mismatch ELSE Got(f.value # Zero)

Field_enum(f) == Field_int32(f)

Field_fixed64(f) ==
    IF f.wire_type # FIXED64 THEN Mismatch ELSE Got(f.value)

Field_sfixed64(f) ==
    IF f.wire_type # FIXED64 THEN Mismatch
    ELSE Got(IF PyGt(f.value, MaxInt64) THEN PySub(f.value, Pow2(64)) ELSE f.value)

Field_fixed32(f) ==
    IF f.wire_type # FIXED32 THEN Mismatch ELSE Got(f.value)

Field_sfixed32(f) ==
    IF f.wire_type # FIXED32 THEN Mismatch
    ELSE Got(IF PyGt(f.value, MaxInt32) THEN PySub(f.value, Pow2(32)) ELSE f.value)

\* struct.pack raising inside an accessor.
Raised(err) == [err |-> err, value |-> Zero]

Field_double(f) ==
    IF f.wire_type # FIXED64 THEN Mismatch
    ELSE LET p == struct_pack_Q(f.value)
         IN  IF p.err # "" THEN Raised(p.err) ELSE Got(struct_unpack_d(p.bytes))

Field_float(f) ==
    IF f.wire_type # FIXED32 THEN Mismatch
    ELSE LET p == struct_pack_I(f.value)
         IN  IF p.err # "" THEN Raised(p.err) ELSE Got(struct_unpack_f(p.bytes))

-----------------------------------------------------------------------------
(* Reader.  next_field returns what the call does to the Reader and to the *)
(* caller: kind is "field" (a Field is returned), "none" (None) or "error" *)
(* (ValueError err is raised), and pos is self._pos when the call ends.    *)
(* self._pos is assigned as each varint is decoded, so a call that raises  *)
(* later keeps the assignments made before.                                *)

NoField == Field(Zero, VARINT, <<>>, Zero)
Yield(f, pos) == [kind |-> "field", err |-> "", field |-> f, pos |-> pos]
AtEnd(pos) == [kind |-> "none", err |-> "", field |-> NoField, pos |-> pos]
Raise(err, pos) == [kind |-> "error", err |-> err, field |-> NoField, pos |-> pos]

Reader(data) == [data |-> data, pos |-> 0, len |-> Len(data)]

\* The LEN branch without the test of the declared length: the slice
\* data[pos : pos + length] stops at the end of the buffer.
next_field_LEN_unchecked(rd, field_number, pos1) ==
    LET l == decode_varint(rd.data, pos1)
    IN  IF l.err # "" THEN Raise(l.err, pos1)
        ELSE LET end == IF PyGt(PyAdd(FromNat(l.pos), l.value), FromNat(rd.len))
                        THEN rd.len
                        ELSE l.pos + ToNat(l.value)
             IN  Yield(Field(field_number, LEN, SubSeq(rd.data, l.pos + 1, end), Zero),
                       end)

\* The LEN branch with a payload slice that is not closed at the declared
\* length: data[pos:] in place of data[pos : pos + length].
next_field_LEN_open_slice(rd, field_number, pos1) ==
    LET l == decode_varint(rd.data, pos1)
    IN  IF l.err # "" THEN Raise(l.err, pos1)
        ELSE IF PyGt(PyAdd(FromNat(l.pos), l.value), FromNat(rd.len))
        THEN Raise("truncated length-delimited field", l.pos)
        ELSE Yield(Field(field_number, LEN, SubSeq(rd.data, l.pos + 1, rd.len), Zero),
                   l.pos + ToNat(l.value))

\* The LEN branch that leaves the cursor at the start of the payload.
next_field_LEN_header_only(rd, field_number, pos1) ==
    LET l == decode_varint(rd.data, pos1)
    IN  IF l.err # "" THEN Raise(l.err, pos1)
        ELSE IF PyGt(PyAdd(FromNat(l.pos), l.value), FromNat(rd.len))
        THEN Raise("truncated length-delimited field", l.pos)
        ELSE Yield(Field(field_number, LEN,
                         SubSeq(rd.data, l.pos + 1, l.pos + ToNat(l.value)), Zero),
                   l.pos)

\* The LEN branch of next_field.
next_field_LEN(rd, field_number, pos1) ==
    LET l == decode_varint(rd.data, pos1)
    IN  IF l.err # "" THEN Raise(l.err, pos1)
        ELSE IF PyGt(PyAdd(FromNat(l.pos), l.value), FromNat(rd.len))
        THEN Raise("truncated length-delimited field", l.pos)
        ELSE LET length == ToNat(l.value)
             IN  Yield(Field(field_number, LEN,
                             SubSeq(rd.data, l.pos + 1, l.pos + length), Zero),
                       l.pos + length)

\* next_field once the tag is parsed: pos1 is the offset just past the tag.
next_field_value(rd, field_number, wire_type, pos1) ==
    IF wire_type = VARINT
    THEN LET v == decode_varint(rd.data, pos1)
         IN  IF v.err # "" THEN Raise(v.err, pos1)
             ELSE Yield(Field(field_number, VARINT, <<>>, v.value), v.pos)
    ELSE IF wire_type = FIXED64
    THEN IF pos1 + 8 > rd.len THEN Raise("truncated fixed64", pos1)
         ELSE Yield(Field(field_number, FIXED64, <<>>, UnpackLE(rd.data, pos1, 8)),
                    pos1 + 8)
    ELSE IF wire_type = LEN
    THEN next_field_LEN(rd, field_number, pos1)
    ELSE IF wire_type = FIXED32
    THEN IF pos1 + 4 > rd.len THEN Raise("truncated fixed32", pos1)
         ELSE Yield(Field(field_number, FIXED32, <<>>, UnpackLE(rd.data, pos1, 4)),
                    pos1 + 4)
    ELSE Raise("unknown wire type", pos1)

\* next_field with the end test `self._pos > self._len`.
next_field_end_gt(rd) ==
    IF rd.pos > rd.len THEN AtEnd(rd.pos)
    ELSE LET t == decode_varint(rd.data, rd.pos)
         IN  IF t.err # "" THEN Raise(t.err, rd.pos)
             ELSE LET p == parse_tag(t.value)
                  IN  IF p.err # "" THEN Raise(p.err, t.pos)
                      ELSE next_field_value(rd, p.field_number, p.wire_type, t.pos)

next_field(rd) ==
    IF rd.pos >= rd.len THEN AtEnd(rd.pos)
    ELSE LET t == decode_varint(rd.data, rd.pos)
         IN  IF t.err # "" THEN Raise(t.err, rd.pos)
             ELSE LET p == parse_tag(t.value)
                  IN  IF p.err # "" THEN Raise(p.err, t.pos)
                      ELSE next_field_value(rd, p.field_number, p.wire_type, t.pos)

\* skip that stops at the payload of a LEN field instead of passing it.
skip_len_header(rd) ==
    LET res == next_field(rd)
    IN  [kind |-> IF res.kind = "field" THEN "true"
                  ELSE IF res.kind = "none" THEN "false" ELSE "error",
         err |-> res.err, field |-> NoField,
         pos |-> IF res.kind = "field" /\ res.field.wire_type = LEN
                 THEN res.pos - Len(res.field.data) ELSE res.pos]

\* skip: next_field() is not None.  kind is "true" or "false" (the value
\* returned) or "error"; the Field that next_field made is dropped.
skip(rd) ==
    LET res == next_field(rd)
    IN  [kind |-> IF res.kind = "field" THEN "true"
                  ELSE IF res.kind = "none" THEN "false" ELSE "error",
         err |-> res.err, field |-> NoField, pos |-> res.pos]

\* remaining that counts from the start of the buffer.
remaining_whole(rd) == rd.len

\* remaining
remaining(rd) == rd.len - rd.pos

-----------------------------------------------------------------------------
(* Field accessors of the LEN wire type.                                   *)

\* Field.string without its _require_wire_type call.
Field_string_unchecked(f) == utf8_decode(f.data)

Field_string(f) ==
    IF f.wire_type # LEN THEN Mismatch ELSE utf8_decode(f.data)

Field_bytes(f) ==
    IF f.wire_type # LEN THEN Mismatch ELSE Got(f.data)

Field_message_data(f) == Field_bytes(f)

\* Field.message: the value is the new Reader.
Field_message(f) ==
    IF f.wire_type # LEN THEN Mismatch ELSE Got(Reader(f.data))

\* list(iter_varints(data)): the varints decoded back to back from offset on.
RECURSIVE iter_varints(_, _, _)
iter_varints(data, offset, acc) ==
    IF offset >= Len(data) THEN Got(acc)
    ELSE LET d == decode_varint(data, offset)
         IN  IF d.err # "" THEN Raised(d.err)
             ELSE iter_varints(data, d.pos, Append(acc, d.value))

Field_packed_int32s(f) ==
    IF f.wire_type # LEN THEN Mismatch
    ELSE LET r == iter_varints(f.data, 0, <<>>)
         IN  IF r.err # "" THEN r
             ELSE Got([i \in 1..Len(r.value) |->
                          LET value == PyAnd(r.value[i], Mask32)
                          IN  IF PyGt(value, MaxInt32)
                              THEN PySub(value, Pow2(32)) ELSE value])

\* packed_int64s without the conversion to signed.
Field_packed_int64s_unsigned(f) ==
    IF f.wire_type # LEN THEN Mismatch ELSE iter_varints(f.data, 0, <<>>)

Field_packed_int64s(f) ==
    IF f.wire_type # LEN THEN Mismatch
    ELSE LET r == iter_varints(f.data, 0, <<>>)
         IN  IF r.err # "" THEN r
             ELSE Got([i \in 1..Len(r.value) |->
                          IF PyGt(r.value[i], MaxInt64)
                          THEN PySub(r.value[i], Pow2(64)) ELSE r.value[i]])

Field_packed_uint32s(f) ==
    IF f.wire_type # LEN THEN Mismatch
    ELSE LET r == iter_varints(f.data, 0, <<>>)
         IN  IF r.err # "" THEN r
             ELSE Got([i \in 1..Len(r.value) |-> PyAnd(r.value[i], Mask32)])

Field_packed_uint64s(f) ==
    IF f.wire_type # LEN THEN Mismatch ELSE iter_varints(f.data, 0, <<>>)

Field_packed_sint32s(f) ==
    IF f.wire_type # LEN THEN Mismatch
    ELSE LET r == iter_varints(f.data, 0, <<>>)
         IN  IF r.err # "" THEN r
             ELSE Got([i \in 1..Len(r.value) |->
                          LET decoded == zigzag_decode(PyAnd(r.value[i], Mask32))
                          IN  IF PyGt(decoded, MaxInt32)
                              THEN PySub(decoded, Pow2(32)) ELSE decoded])

\* packed_sint64s without the zigzag decoding.
Field_packed_sint64s_plain(f) ==
    IF f.wire_type # LEN THEN Mismatch ELSE iter_varints(f.data, 0, <<>>)

Field_packed_sint64s(f) ==
    IF f.wire_type # LEN THEN Mismatch
    ELSE LET r == iter_varints(f.data, 0, <<>>)
         IN  IF r.err # "" THEN r
             ELSE Got([i \in 1..Len(r.value) |-> zigzag_decode(r.value[i])])

Field_packed_bools(f) ==
    IF f.wire_type # LEN THEN Mismatch
    ELSE LET r == iter_varints(f.data, 0, <<>>)
         IN  IF r.err # "" THEN r
             ELSE Got([i \in 1..Len(r.value) |-> r.value[i] # Zero])

Field_packed_fixed32s(f) ==
    IF f.wire_type # LEN THEN Mismatch
    ELSE IF Len(f.data) % 4 # 0
    THEN Raised("packed fixed32 data length not a multiple of 4")
    ELSE Got([i \in 1..(Len(f.data) \div 4) |-> UnpackLE(f.data, 4 * (i - 1), 4)])

\* struct.unpack of "<{n}i": the two's-complement reading of each element.
Field_packed_sfixed32s(f) ==
    IF f.wire_type # LEN THEN Mismatch
    ELSE IF Len(f.data) % 4 # 0
    THEN Raised("packed sfixed32 data length not a multiple of 4")
    ELSE Got([i \in 1..(Len(f.data) \div 4) |->
                 LET u == UnpackLE(f.data, 4 * (i - 1), 4)
                 IN  IF PyGt(u, MaxInt32) THEN PySub(u, Pow2(32)) ELSE u])

Field_packed_floats(f) ==
    IF f.wire_type # LEN THEN Mismatch
    ELSE IF Len(f.data) % 4 # 0
    THEN Raised("packed float data length not a multiple of 4")
    ELSE Got([i \in 1..(Len(f.data) \div 4) |->
                 struct_unpack_f(SubSeq(f.data, 4 * i - 3, 4 * i))])

\* packed_fixed64s with the length test of the 4-byte kinds.
Field_packed_fixed64s_mod4(f) ==
    IF f.wire_type # LEN THEN Mismatch
    ELSE IF Len(f.data) % 4 # 0
    THEN Raised("packed fixed64 data length not a multiple of 8")
    ELSE Got([i \in 1..(Len(f.data) \div 8) |-> UnpackLE(f.data, 8 * (i - 1), 8)])

Field_packed_fixed64s(f) ==
    IF f.wire_type # LEN THEN Mismatch
    ELSE IF Len(f.data) % 8 # 0
    THEN Raised("packed fixed64 data length not a multiple of 8")
    ELSE Got([i \in 1..(Len(f.data) \div 8) |-> UnpackLE(f.data, 8 * (i - 1), 8)])

\* struct.unpack of "<{n}q": the two's-complement reading of each element.
Field_packed_sfixed64s(f) ==
    IF f.wire_type # LEN THEN Mismatch
    ELSE IF Len(f.data) % 8 # 0
    THEN Raised("packed sfixed64 data length not a multiple of 8")
    ELSE Got([i \in 1..(Len(f.data) \div 8) |->
                 LET u == UnpackLE(f.data, 8 * (i - 1), 8)
                 IN  IF PyGt(u, MaxInt64) THEN PySub(u, Pow2(64)) ELSE u])

Field_packed_doubles(f) ==
    IF f.wire_type # LEN THEN Mismatch
    ELSE IF Len(f.data) % 8 # 0
    THEN Raised("packed double data length not a multiple of 8")
    ELSE Got([i \in 1..(Len(f.data) \div 8) |->
                 struct_unpack_d(SubSeq(f.data, 8 * i - 7, 8 * i))])

-----------------------------------------------------------------------------
(* Writer.  A write method returns [err, buffer]: the ValueError or        *)
(* struct.error it raises ("" for none) and self._buffer when it ends.     *)
(* The tag is appended before the value is packed, so a method that raises *)
(* while packing leaves the tag in the buffer.                             *)

Wrote(buffer) == [err |-> "", buffer |-> buffer]
WriteError(err, buffer) == [err |-> err, buffer |-> buffer]

\* _write_tag with a tag that make_tag did not validate.
Writer_write_tag_unchecked(buffer, field_number, wire_type) ==
    Wrote(buffer \o encode_varint(PyOr(PyShl(field_number, 3), FromNat(wire_type))))

Writer_write_tag(buffer, field_number, wire_type) ==
    LET t == make_tag(field_number, wire_type)
    IN  IF t.err # "" THEN WriteError(t.err, buffer)
        ELSE Wrote(buffer \o encode_varint(t.tag))

\* self._buffer.extend(bytes) after a call that may have raised.
Extend(r, bytes) == IF r.err # "" THEN r ELSE Wrote(r.buffer \o bytes)

\* self._buffer.extend(struct.pack(...)) after a call that may have raised.
ExtendPacked(r, p) ==
    IF r.err # "" THEN r
    ELSE IF p.err # "" THEN WriteError(p.err, r.buffer)
    ELSE Wrote(r.buffer \o p.bytes)

Writer_int32(buffer, field_number, value) ==
    Extend(Writer_write_tag(buffer, field_number, VARINT),
           encode_varint(IF IsNeg(value) THEN PyAnd(value, Mask64) ELSE value))

Writer_int64(buffer, field_number, value) ==
    Extend(Writer_write_tag(buffer, field_number, VARINT),
           encode_varint(IF IsNeg(value) THEN PyAnd(value, Mask64) ELSE value))

Writer_uint32(buffer, field_number, value) ==
    Extend(Writer_write_tag(buffer, field_number, VARINT),
           encode_varint(PyAnd(value, Mask32)))

Writer_uint64(buffer, field_number, value) ==
    Extend(Writer_write_tag(buffer, field_number, VARINT), encode_varint(value))

Writer_sint32(buffer, field_number, value) ==
    Extend(Writer_write_tag(buffer, field_number, VARINT),
           encode_varint(PyAnd(zigzag_encode(value), Mask32)))

Writer_sint64(buffer, field_number, value) ==
    Extend(Writer_write_tag(buffer, field_number, VARINT),
           encode_varint(zigzag_encode(value)))

Writer_bool(buffer, field_number, value) ==
    Extend(Writer_write_tag(buffer, field_number, VARINT),
           encode_varint(IF value THEN One ELSE Zero))

Writer_enum(buffer, field_number, value) == Writer_int32(buffer, field_number, value)

Writer_fixed64(buffer, field_number, value) ==
    ExtendPacked(Writer_write_tag(buffer, field_number, FIXED64),
                 struct_pack_Q(PyAnd(value, Mask64)))

Writer_sfixed64(buffer, field_number, value) ==
    ExtendPacked(Writer_write_tag(buffer, field_number, FIXED64), struct_pack_q(value))

Writer_double(buffer, field_number, value) ==
    ExtendPacked(Writer_write_tag(buffer, field_number, FIXED64), struct_pack_d(value))

Writer_fixed32(buffer, field_number, value) ==
    ExtendPacked(Writer_write_tag(buffer, field_number, FIXED32),
                 struct_pack_I(PyAnd(value, Mask32)))

Writer_sfixed32(buffer, field_number, value) ==
    ExtendPacked(Writer_write_tag(buffer, field_number, FIXED32), struct_pack_i(value))

Writer_float(buffer, field_number, value) ==
    ExtendPacked(Writer_write_tag(buffer, field_number, FIXED32), struct_pack_f(value))

Writer_string(buffer, field_number, value) ==
    LET encoded == utf8_encode(value)
    IN  Extend(Extend(Writer_write_tag(buffer, field_number, LEN),
                      encode_varint(FromNat(Len(encoded)))),
               encoded)

Writer_bytes(buffer, field_number, value) ==
    Extend(Extend(Writer_write_tag(buffer, field_number, LEN),
                  encode_varint(FromNat(Len(value)))),
           value)

\* Writer.message: the child Writer(parent = self, field_num = field_number).
Writer_message(parent, field_number) ==
    [buffer |-> <<>>, parent |-> parent, field_num |-> field_number]

\* Writer.end without the length of the child's buffer.
Writer_end_no_length(parent_buffer, field_num, buffer) ==
    Extend(Writer_write_tag(parent_buffer, field_num, LEN), buffer)

\* Writer.end on a child: what it makes of the parent's buffer.
Writer_end(parent_buffer, field_num, buffer) ==
    Extend(Extend(Writer_write_tag(parent_buffer, field_num, LEN),
                  encode_varint(FromNat(Len(buffer)))),
           buffer)

\* Writer.__exit__: what it makes of the parent's buffer; exc_type is "None"
\* when the with-block ended without an exception.
Writer_exit(parent_buffer, field_num, buffer, exc_type) ==
    IF exc_type = "None"
    THEN Extend(Extend(Writer_write_tag(parent_buffer, field_num, LEN),
                       encode_varint(FromNat(Len(buffer)))),
                buffer)
    ELSE Wrote(parent_buffer)

\* The varint family of packed_* methods encode every value first.
RECURSIVE Concat(_)
Concat(chunks) == IF chunks = <<>> THEN <<>> ELSE Head(chunks) \o Concat(Tail(chunks))

\* Once the packed bytearray is built: the tag, its length and its bytes.
Writer_write_packed(buffer, field_number, packed) ==
    Extend(Extend(Writer_write_tag(buffer, field_number, LEN),
                  encode_varint(FromNat(Len(packed)))),
           packed)

enc_int64(v) == IF IsNeg(v) THEN PyAnd(v, Mask64) ELSE v
enc_uint32(v) == PyAnd(v, Mask32)

Writer_packed_int32s(buffer, field_number, values) ==
    IF values = <<>> THEN Wrote(buffer)
    ELSE Writer_write_packed(buffer, field_number,
             Concat([i \in 1..Len(values) |-> encode_varint(enc_int64(values[i]))]))

Writer_packed_int64s(buffer, field_number, values) ==
    IF values = <<>> THEN Wrote(buffer)
    ELSE Writer_write_packed(buffer, field_number,
             Concat([i \in 1..Len(values) |-> encode_varint(enc_int64(values[i]))]))

Writer_packed_uint32s(buffer, field_number, values) ==
    IF values = <<>> THEN Wrote(buffer)
    ELSE Writer_write_packed(buffer, field_number,
             Concat([i \in 1..Len(values) |-> encode_varint(enc_uint32(values[i]))]))

Writer_packed_uint64s(buffer, field_number, values) ==
    IF values = <<>> THEN Wrote(buffer)
    ELSE Writer_write_packed(buffer, field_number,
             Concat([i \in 1..Len(values) |-> encode_varint(values[i])]))

Writer_packed_sint32s(buffer, field_number, values) ==
    IF values = <<>> THEN Wrote(buffer)
    ELSE Writer_write_packed(buffer, field_number,
             Concat([i \in 1..Len(values) |->
                        encode_varint(PyAnd(zigzag_encode(values[i]), Mask32))]))

Writer_packed_sint64s(buffer, field_number, values) ==
    IF values = <<>> THEN Wrote(buffer)
    ELSE Writer_write_packed(buffer, field_number,
             Concat([i \in 1..Len(values) |-> encode_varint(zigzag_encode(values[i]))]))

Writer_packed_bools(buffer, field_number, values) ==
    IF values = <<>> THEN Wrote(buffer)
    ELSE Writer_write_packed(buffer, field_number,
             Concat([i \in 1..Len(values) |->
                        encode_varint(IF values[i] THEN One ELSE Zero)]))

\* The fixed family write the tag and the length, then pack value by value.
RECURSIVE ExtendAll(_, _)
ExtendAll(r, packs) ==
    IF packs = <<>> \/ r.err # "" THEN r
    ELSE ExtendAll(ExtendPacked(r, Head(packs)), Tail(packs))

pack_fixed32(v) == struct_pack_I(PyAnd(v, Mask32))

Writer_packed_fixed32s(buffer, field_number, values) ==
    IF values = <<>> THEN Wrote(buffer)
    ELSE ExtendAll(Extend(Writer_write_tag(buffer, field_number, LEN),
                          encode_varint(FromNat(Len(values) * 4))),
                   [i \in 1..Len(values) |-> pack_fixed32(values[i])])

Writer_packed_sfixed32s(buffer, field_number, values) ==
    IF values = <<>> THEN Wrote(buffer)
    ELSE ExtendAll(Extend(Writer_write_tag(buffer, field_number, LEN),
                          encode_varint(FromNat(Len(values) * 4))),
                   [i \in 1..Len(values) |-> struct_pack_i(values[i])])

Writer_packed_floats(buffer, field_number, values) ==
    IF values = <<>> THEN Wrote(buffer)
    ELSE ExtendAll(Extend(Writer_write_tag(buffer, field_number, LEN),
                          encode_varint(FromNat(Len(values) * 4))),
                   [i \in 1..Len(values) |-> struct_pack_f(values[i])])

Writer_packed_fixed64s(buffer, field_number, values) ==
    IF values = <<>> THEN Wrote(buffer)
    ELSE ExtendAll(Extend(Writer_write_tag(buffer, field_number, LEN),
                          encode_varint(FromNat(Len(values) * 8))),
                   [i \in 1..Len(values) |-> struct_pack_Q(PyAnd(values[i], Mask64))])

Writer_packed_sfixed64s(buffer, field_number, values) ==
    IF values = <<>> THEN Wrote(buffer)
    ELSE ExtendAll(Extend(Writer_write_tag(buffer, field_number, LEN),
                          encode_varint(FromNat(Len(values) * 8))),
                   [i \in 1..Len(values) |-> struct_pack_q(values[i])])

\* packed_doubles without the early return on an empty list.
Writer_packed_doubles_always(buffer, field_number, values) ==
    ExtendAll(Extend(Writer_write_tag(buffer, field_number, LEN),
                     encode_varint(FromNat(Len(values) * 8))),
              [i \in 1..Len(values) |-> struct_pack_d(values[i])])

Writer_packed_doubles(buffer, field_number, values) ==
    IF values = <<>> THEN Wrote(buffer)
    ELSE ExtendAll(Extend(Writer_write_tag(buffer, field_number, LEN),
                          encode_varint(FromNat(Len(values) * 8))),
                   [i \in 1..Len(values) |-> struct_pack_d(values[i])])

Writer_finish(buffer) == buffer

\* clear that leaves the buffer as it is.
Writer_clear_keeps(buffer) == buffer

\* clear: self._buffer.clear()
Writer_clear(buffer) == <<>>

-----------------------------------------------------------------------------
(* The codec functions called directly: the first step applies one        *)
(* function to an argument drawn from a bounded set, the next applies the  *)
(* inverse function to its result.                                         *)

SmallMax == 130     \* the naturals 0..SmallMax are inputs
MaxBit == 70        \* and 2^k, 2^k - 1, -2^k, -2^k - 1 for k in 0..MaxBit
MaxCont == 11       \* raw varints have up to MaxCont continuation bytes
TagSmallMax == 17   \* field numbers 0..TagSmallMax
MaxTagBit == 30     \* and 2^k, 2^k - 1 for k in 0..MaxTagBit

CodecValues ==
    {FromNat(n) : n \in 0..SmallMax}
        \cup {Pow2(k) : k \in 0..MaxBit} \cup {Ones(k) : k \in 0..MaxBit}
        \cup {PyNeg(Pow2(k)) : k \in 0..MaxBit}
        \cup {PyNot(Pow2(k)) : k \in 0..MaxBit}

\* Raw varint buffers: k continuation bytes, then a tail that may or may not
\* hold a terminating byte.
VarintTails == {<<>>, <<0>>, <<1>>, <<127>>, <<1, 128>>, <<0, 0>>}
VarintBuffers ==
    {[i \in 1..k |-> c] \o t : k \in 0..MaxCont, c \in {128, 255}, t \in VarintTails}

TagFieldNumbers ==
    {FromNat(n) : n \in 0..TagSmallMax} \cup {MinusOne}
        \cup {Pow2(k) : k \in 0..MaxTagBit} \cup {Ones(k) : k \in 0..MaxTagBit}

NoCall == [op |-> "none", arg |-> Zero]

CodecInit ==
    /\ cop = "none"
    /\ carg = Zero
    /\ cres = Zero
    /\ csrc = NoCall

Codec_encode_varint ==
    \E v \in CodecValues :
        /\ cop = "none"
        /\ cop' = "encode_varint"
        /\ carg' = v
        /\ cres' = encode_varint(v)
        /\ csrc' = NoCall
        /\ UNCHANGED <<wvars, rvars>>

\* decode_varint(data, offset) on a raw buffer.
Codec_decode_varint ==
    \E data \in VarintBuffers, offset \in {0, 1} :
        /\ cop = "none"
        /\ offset <= Len(data)
        /\ cop' = "decode_varint"
        /\ carg' = [data |-> data, offset |-> offset]
        /\ cres' = decode_varint(data, offset)
        /\ csrc' = NoCall
        /\ UNCHANGED <<wvars, rvars>>

\* decode_varint(encode_varint(v), 0).
Codec_decode_encoded ==
    /\ cop = "encode_varint"
    /\ cop' = "decode_varint"
    /\ carg' = [data |-> cres, offset |-> 0]
    /\ cres' = decode_varint(cres, 0)
    /\ csrc' = [op |-> cop, arg |-> carg]
    /\ UNCHANGED <<wvars, rvars>>

Codec_zigzag_encode ==
    \E v \in CodecValues :
        /\ cop = "none"
        /\ cop' = "zigzag_encode"
        /\ carg' = v
        /\ cres' = zigzag_encode(v)
        /\ csrc' = NoCall
        /\ UNCHANGED <<wvars, rvars>>

\* zigzag_decode(zigzag_encode(v)).
Codec_zigzag_decode ==
    /\ cop = "zigzag_encode"
    /\ cop' = "zigzag_decode"
    /\ carg' = cres
    /\ cres' = zigzag_decode(cres)
    /\ csrc' = [op |-> cop, arg |-> carg]
    /\ UNCHANGED <<wvars, rvars>>

Codec_make_tag ==
    \E n \in TagFieldNumbers, w \in 0..7 :
        /\ cop = "none"
        /\ cop' = "make_tag"
        /\ carg' = [field_number |-> n, wire_type |-> w]
        /\ cres' = make_tag(n, w)
        /\ csrc' = NoCall
        /\ UNCHANGED <<wvars, rvars>>

\* parse_tag(make_tag(n, w)), when make_tag returned a tag.
Codec_parse_tag ==
    /\ cop = "make_tag"
    /\ cres.err = ""
    /\ cop' = "parse_tag"
    /\ carg' = cres.tag
    /\ cres' = parse_tag(cres.tag)
    /\ csrc' = [op |-> cop, arg |-> carg]
    /\ UNCHANGED <<wvars, rvars>>

CodecNext ==
    \/ Codec_encode_varint
    \/ Codec_decode_varint
    \/ Codec_decode_encoded
    \/ Codec_zigzag_encode
    \/ Codec_zigzag_decode
    \/ Codec_make_tag
    \/ Codec_parse_tag

-----------------------------------------------------------------------------
(* Writer and Reader calls.  `may` says whether the program makes the call *)
(* in the current state; FN and VS are the field numbers and the values    *)
(* the calls draw their arguments from.                                    *)

MaxCalls == 3       \* Writer method calls in a run of Spec
MaxReaders == 2     \* Reader objects in a run
MaxDepth == 3       \* with-blocks nested in one another in a run of SpecDeep

RootWriter == [buffer |-> <<>>, parent |-> 0, field_num |-> Zero]
NoReaderCall ==
    [reader |-> 0, op |-> "none", at |-> 0, kind |-> "none", err |-> "",
     field |-> NoField]
NoAccess == [name |-> "none", err |-> "", value |-> Zero]

WriterInit ==
    /\ writers = <<RootWriter>>
    /\ wlog = <<>>

ReaderInit ==
    /\ readers = <<>>
    /\ rsrc = [how |-> "none", full |-> <<>>]
    /\ origin = <<>>
    /\ yielded = <<>>
    /\ skipped = <<>>
    /\ rres = NoReaderCall
    /\ ares = NoAccess

\* A call of `method` on Writer w, which leaves buffer r.buffer in Writer
\* target and raises r.err; emits says whether a successful call appends a field.
WriterCall(w, target, method, n, v, wt, emits, r) ==
    /\ writers' = [writers EXCEPT ![target].buffer = r.buffer]
    /\ wlog' = Append(wlog, [writer |-> w, target |-> target, method |-> method,
                             number |-> n, wire_type |-> wt, value |-> v,
                             err |-> r.err, emits |-> emits /\ r.err = "",
                             before |-> writers[target].buffer,
                             after |-> r.buffer])
    /\ UNCHANGED <<cvars, rvars>>

\* The packed_* methods, and the wire type of the field each method writes.
PackedMethods ==
    {"packed_int32s", "packed_int64s", "packed_uint32s", "packed_uint64s",
     "packed_sint32s", "packed_sint64s", "packed_bools", "packed_fixed32s",
     "packed_sfixed32s", "packed_floats", "packed_fixed64s", "packed_sfixed64s",
     "packed_doubles"}
MethodWireType(method) ==
    IF method \in {"fixed64", "sfixed64", "double"} THEN FIXED64
    ELSE IF method \in {"fixed32", "sfixed32", "float"} THEN FIXED32
    ELSE IF method \in {"string", "bytes"} \cup PackedMethods THEN LEN
    ELSE VARINT

\* writer.<method>(n, v) by the name of the method.
Writer_call(method, buffer, n, v) ==
    CASE method = "int32" -> Writer_int32(buffer, n, v)
      [] method = "int64" -> Writer_int64(buffer, n, v)
      [] method = "uint32" -> Writer_uint32(buffer, n, v)
      [] method = "uint64" -> Writer_uint64(buffer, n, v)
      [] method = "sint32" -> Writer_sint32(buffer, n, v)
      [] method = "sint64" -> Writer_sint64(buffer, n, v)
      [] method = "bool" -> Writer_bool(buffer, n, v)
      [] method = "enum" -> Writer_enum(buffer, n, v)
      [] method = "fixed64" -> Writer_fixed64(buffer, n, v)
      [] method = "sfixed64" -> Writer_sfixed64(buffer, n, v)
      [] method = "double" -> Writer_double(buffer, n, v)
      [] method = "fixed32" -> Writer_fixed32(buffer, n, v)
      [] method = "sfixed32" -> Writer_sfixed32(buffer, n, v)
      [] method = "float" -> Writer_float(buffer, n, v)
      [] method = "string" -> Writer_string(buffer, n, v)
      [] method = "bytes" -> Writer_bytes(buffer, n, v)
      [] method = "packed_int32s" -> Writer_packed_int32s(buffer, n, v)
      [] method = "packed_int64s" -> Writer_packed_int64s(buffer, n, v)
      [] method = "packed_uint32s" -> Writer_packed_uint32s(buffer, n, v)
      [] method = "packed_uint64s" -> Writer_packed_uint64s(buffer, n, v)
      [] method = "packed_sint32s" -> Writer_packed_sint32s(buffer, n, v)
      [] method = "packed_sint64s" -> Writer_packed_sint64s(buffer, n, v)
      [] method = "packed_bools" -> Writer_packed_bools(buffer, n, v)
      [] method = "packed_fixed32s" -> Writer_packed_fixed32s(buffer, n, v)
      [] method = "packed_sfixed32s" -> Writer_packed_sfixed32s(buffer, n, v)
      [] method = "packed_floats" -> Writer_packed_floats(buffer, n, v)
      [] method = "packed_fixed64s" -> Writer_packed_fixed64s(buffer, n, v)
      [] method = "packed_sfixed64s" -> Writer_packed_sfixed64s(buffer, n, v)
      [] method = "packed_doubles" -> Writer_packed_doubles(buffer, n, v)

\* w.<method>(n, v): a field is appended, unless v is an empty packed list.
Do_write(may, W, method, FN, VS) ==
    /\ may
    /\ \E w \in W, n \in FN, v \in VS :
         WriterCall(w, w, method, n, v, MethodWireType(method),
                    method \notin PackedMethods \/ v # <<>>,
                    Writer_call(method, writers[w].buffer, n, v))

\* child = w.message(n)
Do_message(may, W, FN) ==
    /\ may
    /\ \E w \in W, n \in FN :
        /\ writers' = Append(writers, Writer_message(w, n))
        /\ wlog' = Append(wlog, [writer |-> w, target |-> w, method |-> "message",
                                 number |-> n, wire_type |-> LEN, value |-> Zero,
                                 err |-> "", emits |-> FALSE,
                                 before |-> writers[w].buffer,
                                 after |-> writers[w].buffer])
        /\ UNCHANGED <<cvars, rvars>>

\* w.end(): appends w to its parent, and does nothing on a Writer with none.
Do_end(may, W) ==
    /\ may
    /\ \E w \in W :
        /\ IF writers[w].parent # 0
           THEN WriterCall(w, writers[w].parent, "end", writers[w].field_num, Zero,
                           LEN, TRUE,
                           Writer_end(writers[writers[w].parent].buffer,
                                      writers[w].field_num, writers[w].buffer))
           ELSE WriterCall(w, w, "end", Zero, Zero, LEN, FALSE,
                           Wrote(writers[w].buffer))

\* The with-block of w is left, normally (exc_type "None") or by an exception:
\* w.__exit__(exc_type, ...) appends w to its parent in the first case only.
Do_exit(may, W, EXC) ==
    /\ may
    /\ \E w \in W, exc_type \in EXC :
        /\ IF writers[w].parent # 0
           THEN WriterCall(w, writers[w].parent, "exit", writers[w].field_num,
                           exc_type, LEN, exc_type = "None",
                           Writer_exit(writers[writers[w].parent].buffer,
                                       writers[w].field_num, writers[w].buffer,
                                       exc_type))
           ELSE WriterCall(w, w, "exit", Zero, exc_type, LEN, FALSE,
                           Wrote(writers[w].buffer))

\* w.finish(): the bytes returned are logged as the call's value; the buffer
\* stays.
Do_finish(may, W) ==
    /\ may
    /\ \E w \in W :
         WriterCall(w, w, "finish", Zero, Writer_finish(writers[w].buffer), LEN,
                    FALSE, Wrote(writers[w].buffer))

\* w.clear()
Do_clear(may, W) ==
    /\ may
    /\ \E w \in W :
         WriterCall(w, w, "clear", Zero, Zero, LEN, FALSE,
                    Wrote(Writer_clear(writers[w].buffer)))

\* Reader(data): the root Reader.
NewReader(how, data, full) ==
    /\ readers = <<>>
    /\ readers' = <<Reader(data)>>
    /\ rsrc' = [how |-> how, full |-> full]
    /\ origin' = << <<0, 0>> >>
    /\ yielded' = << <<>> >>
    /\ skipped' = <<0>>
    /\ UNCHANGED <<cvars, wvars, rres, ares>>

\* Reader(writer.finish())
Reader_of_finish ==
    NewReader("finish", Writer_finish(writers[1].buffer), writers[1].buffer)

\* Reader(writer.finish()[:-1])
Reader_of_truncated ==
    /\ writers[1].buffer # <<>>
    /\ NewReader("truncated",
                 SubSeq(writers[1].buffer, 1, Len(writers[1].buffer) - 1),
                 writers[1].buffer)

\* Reader(data) and Reader(data[:-1]) on bytes no Writer made.
Reader_of_raw(Raw) ==
    /\ wlog = <<>>
    /\ readers = <<>>
    /\ \E data \in Raw : NewReader("raw", data, data)

Reader_of_raw_truncated(Raw) ==
    /\ wlog = <<>>
    /\ readers = <<>>
    /\ \E data \in Raw :
        /\ data # <<>>
        /\ NewReader("truncated", SubSeq(data, 1, Len(data) - 1), data)

\* next_field on Readers that share one cursor: advancing r moves them all.
Reader_next_field_shared_cursor ==
    \E r \in 1..Len(readers) :
        LET res == next_field(readers[r])
        IN  /\ readers' = [q \in 1..Len(readers) |->
                              [readers[q] EXCEPT !.pos = res.pos]]
            /\ yielded' = IF res.kind = "field"
                          THEN [yielded EXCEPT ![r] = Append(@, res.field)]
                          ELSE yielded
            /\ rres' = [reader |-> r, op |-> "next_field", at |-> readers[r].pos,
                        kind |-> res.kind, err |-> res.err, field |-> res.field]
            /\ ares' = NoAccess
            /\ UNCHANGED <<cvars, wvars, rsrc, origin, skipped>>

Reader_next_field ==
    \E r \in 1..Len(readers) :
        LET res == next_field(readers[r])
        IN  /\ readers' = [readers EXCEPT ![r].pos = res.pos]
            /\ yielded' = IF res.kind = "field"
                          THEN [yielded EXCEPT ![r] = Append(@, res.field)]
                          ELSE yielded
            /\ rres' = [reader |-> r, op |-> "next_field", at |-> readers[r].pos,
                        kind |-> res.kind, err |-> res.err, field |-> res.field]
            /\ ares' = NoAccess
            /\ UNCHANGED <<cvars, wvars, rsrc, origin, skipped>>

\* r.skip()
Reader_skip ==
    \E r \in 1..Len(readers) :
        LET res == skip(readers[r])
        IN  /\ readers' = [readers EXCEPT ![r].pos = res.pos]
            /\ skipped' = IF res.kind = "true"
                          THEN [skipped EXCEPT ![r] = @ + 1]
                          ELSE skipped
            /\ rres' = [reader |-> r, op |-> "skip", at |-> readers[r].pos,
                        kind |-> res.kind, err |-> res.err, field |-> res.field]
            /\ ares' = NoAccess
            /\ UNCHANGED <<cvars, wvars, rsrc, origin, yielded>>

\* field.<name>() on the Field the last Reader call returned; the accessors
\* that construct nothing leave the Field as it is, so one call is made.
Access(name, result) ==
    /\ rres.kind = "field"
    /\ ares.name = "none"
    /\ ares' = [name |-> name, err |-> result.err, value |-> result.value]
    /\ UNCHANGED <<cvars, wvars, readers, rsrc, origin, yielded, skipped, rres>>

\* field.<name>() by the name of the accessor (message apart: it constructs a
\* Reader).
Field_accessor(name, f) ==
    CASE name = "int32" -> Field_int32(f)
      [] name = "int64" -> Field_int64(f)
      [] name = "uint32" -> Field_uint32(f)
      [] name = "uint64" -> Field_uint64(f)
      [] name = "sint32" -> Field_sint32(f)
      [] name = "sint64" -> Field_sint64(f)
      [] name = "bool" -> Field_bool(f)
      [] name = "enum" -> Field_enum(f)
      [] name = "fixed64" -> Field_fixed64(f)
      [] name = "sfixed64" -> Field_sfixed64(f)
      [] name = "fixed32" -> Field_fixed32(f)
      [] name = "sfixed32" -> Field_sfixed32(f)
      [] name = "double" -> Field_double(f)
      [] name = "float" -> Field_float(f)
      [] name = "string" -> Field_string(f)
      [] name = "bytes" -> Field_bytes(f)
      [] name = "message_data" -> Field_message_data(f)
      [] name = "packed_int32s" -> Field_packed_int32s(f)
      [] name = "packed_int64s" -> Field_packed_int64s(f)
      [] name = "packed_uint32s" -> Field_packed_uint32s(f)
      [] name = "packed_uint64s" -> Field_packed_uint64s(f)
      [] name = "packed_sint32s" -> Field_packed_sint32s(f)
      [] name = "packed_sint64s" -> Field_packed_sint64s(f)
      [] name = "packed_bools" -> Field_packed_bools(f)
      [] name = "packed_fixed32s" -> Field_packed_fixed32s(f)
      [] name = "packed_sfixed32s" -> Field_packed_sfixed32s(f)
      [] name = "packed_floats" -> Field_packed_floats(f)
      [] name = "packed_fixed64s" -> Field_packed_fixed64s(f)
      [] name = "packed_sfixed64s" -> Field_packed_sfixed64s(f)
      [] name = "packed_doubles" -> Field_packed_doubles(f)

Get(name) == Access(name, Field_accessor(name, rres.field))

\* field.message(): a successful call constructs a new Reader over the payload.
Get_message(may) ==
    /\ rres.kind = "field"
    /\ may
    /\ LET result == Field_message(rres.field)
       IN  /\ ares' = [name |-> "message", err |-> result.err,
                       value |-> result.value]
           /\ readers' = IF result.err = "" THEN Append(readers, result.value)
                         ELSE readers
           /\ yielded' = IF result.err = "" THEN Append(yielded, <<>>)
                         ELSE yielded
           /\ skipped' = IF result.err = "" THEN Append(skipped, 0)
                         ELSE skipped
           /\ origin' = IF result.err = ""
                        THEN Append(origin, <<rres.reader, Len(yielded[rres.reader])>>)
                        ELSE origin
    /\ UNCHANGED <<cvars, wvars, rsrc, rres>>

-----------------------------------------------------------------------------
(* Struct codec (fastproto.encode / decode / encode_into / decode_from).   *)
(* A StructDescriptor is the ordered table of a record type's              *)
(* FieldDescriptors: field number, kind ("scalar" or "repeated"), the      *)
(* proto type that names the Writer method and Field accessor of a single  *)
(* value, the packed method and accessor of a repeated one, and the        *)
(* default.  A struct value is the sequence of its fields' values in the   *)
(* order of the table.                                                     *)

\* class Sample: i: int = field(1, proto_type="sint64", default=0);
\* s: str = field(2, default="");
\* r: list[int] = field(3, proto_type="sint64", default_factory=list)
SampleDescriptor ==
    << [number |-> One, kind |-> "scalar", proto_type |-> "sint64",
        packed |-> "", default |-> Zero],
       [number |-> FromNat(2), kind |-> "scalar", proto_type |-> "string",
        packed |-> "", default |-> <<>>],
       [number |-> FromNat(3), kind |-> "repeated", proto_type |-> "sint64",
        packed |-> "packed_sint64s", default |-> <<>>] >>

\* Every field at its descriptor's default.
Defaults(desc) == <<desc[1].default, desc[2].default, desc[3].default>>

\* The position in desc of the descriptor of field number n; 0 when the
\* number is unknown.
Lookup(desc, n) ==
    IF \E k \in 1..Len(desc) : desc[k].number = n
    THEN CHOOSE k \in 1..Len(desc) : desc[k].number = n
    ELSE 0

\* A repeated scalar once an occurrence is decoded (v): it takes every value
\* of a packed (LEN) occurrence, or the one value of a non-packed occurrence.
decode_repeated(old, packed, v) ==
    IF v.err # "" THEN v
    ELSE Got(IF packed THEN old \o v.value ELSE Append(old, v.value))

\* The value of the field of descriptor d once Field f is decoded into it:
\* a scalar is replaced, a repeated scalar accumulates.
decode_field(d, f, old) ==
    IF d.kind = "scalar" THEN Field_accessor(d.proto_type, f)
    ELSE decode_repeated(old, f.wire_type = LEN,
                         Field_accessor(IF f.wire_type = LEN THEN d.packed
                                        ELSE d.proto_type, f))

\* The turn of decode_from's loop once the Field of descriptor k is converted
\* (v): a failed conversion ends the call, a value is stored.
decode_from_value(rd, acc, res, k, v) ==
    IF v.err # "" THEN [done |-> TRUE, rd |-> rd, result |-> Raised(v.err)]
    ELSE [done |-> FALSE, rd |-> [rd EXCEPT !.pos = res.pos],
          result |-> Got([acc EXCEPT ![k] = v.value])]

\* decode_from(cls, reader), one turn of its loop over the fields of the
\* Reader, res being what reader.next_field() returned: at the end of the
\* message the struct built so far (acc) is returned; an error ends the call;
\* a field whose number has no descriptor is skipped, any other is converted
\* per its descriptor.
decode_from(desc, rd, acc, res) ==
    IF res.kind = "none" THEN [done |-> TRUE, rd |-> rd, result |-> Got(acc)]
    ELSE IF res.kind = "error"
    THEN [done |-> TRUE, rd |-> rd, result |-> Raised(res.err)]
    ELSE IF Lookup(desc, res.field.number) = 0
    THEN [done |-> FALSE, rd |-> [rd EXCEPT !.pos = res.pos], result |-> Got(acc)]
    ELSE decode_from_value(rd, acc, res, Lookup(desc, res.field.number),
                           decode_field(desc[Lookup(desc, res.field.number)],
                                        res.field,
                                        acc[Lookup(desc, res.field.number)]))

\* encode_into(writer, obj), one turn of its loop over the descriptors, taken
\* in declared order: past the last descriptor the call returns; a field that
\* holds its default is omitted, any other is written by its scalar or packed
\* Writer method; an error ends the call.
encode_into(desc, value, k, buffer) ==
    IF k > Len(desc) THEN [done |-> TRUE, result |-> Wrote(buffer)]
    ELSE IF value[k] = desc[k].default
    THEN [done |-> FALSE, result |-> Wrote(buffer)]
    ELSE LET w == Writer_call(IF desc[k].kind = "scalar" THEN desc[k].proto_type
                              ELSE desc[k].packed,
                              buffer, desc[k].number, value[k])
         IN  [done |-> w.err # "", result |-> w]

\* decode(cls, data) begins decode_from(cls, Reader(data)) with every field
\* at its default: carg holds the Reader, cres the struct built so far.
decode(desc, data, src) ==
    /\ cop' = "decode_from"
    /\ carg' = Reader(data)
    /\ cres' = Got(Defaults(desc))
    /\ csrc' = src
    /\ UNCHANGED <<wvars, rvars>>

\* decode(Sample, writer.finish())
Struct_decode(may) ==
    /\ may
    /\ decode(SampleDescriptor, Writer_finish(writers[1].buffer),
              [op |-> "finish", arg |-> Zero])

\* One turn of the loop of decode_from; cop is "decode" once it has returned
\* or raised.
Struct_decode_from ==
    /\ cop = "decode_from"
    /\ \E res \in {next_field(carg)} :
        LET turn == decode_from(SampleDescriptor, carg, cres.value, res)
        IN  /\ cop' = IF turn.done THEN "decode" ELSE "decode_from"
            /\ carg' = turn.rd
            /\ cres' = turn.result
    /\ UNCHANGED <<csrc, wvars, rvars>>

\* encode(obj) for a Sample obj begins encode_into(Writer(), obj) at the first
\* descriptor: carg holds obj, cres the Writer's buffer, csrc.arg the position
\* in the table.
Struct_encode(may, VS) ==
    /\ may
    /\ \E value \in VS :
        /\ cop' = "encode_into"
        /\ carg' = value
        /\ cres' = Wrote(<<>>)
        /\ csrc' = [op |-> "encode_into", arg |-> 1]
        /\ UNCHANGED <<wvars, rvars>>

\* One turn of the loop of encode_into; cop is "encode" once encode has
\* returned the buffer or raised.
Struct_encode_into ==
    /\ cop = "encode_into"
    /\ LET turn == encode_into(SampleDescriptor, carg, csrc.arg, cres.buffer)
       IN  /\ cop' = IF turn.done THEN "encode" ELSE "encode_into"
           /\ cres' = turn.result
           /\ csrc' = IF turn.done THEN NoCall
                      ELSE [op |-> "encode_into", arg |-> csrc.arg + 1]
    /\ UNCHANGED <<carg, wvars, rvars>>

\* decode(Sample, encode(obj))
Struct_decode_encoded ==
    /\ cop = "encode"
    /\ cres.err = ""
    /\ decode(SampleDescriptor, cres.buffer, [op |-> "encode", arg |-> carg])

-----------------------------------------------------------------------------
(* The arguments the calls are made with.                                  *)

IntMethods ==
    {"int32", "int64", "uint32", "uint64", "sint32", "sint64", "enum",
     "fixed64", "sfixed64", "fixed32", "sfixed32"}
FloatMethods == {"double", "float"}
WriterMethods ==
    IntMethods \cup FloatMethods \cup {"bool", "string", "bytes"} \cup PackedMethods
Accessors == (WriterMethods \cup {"message_data"})

\* Boundary values of the 32- and 64-bit kinds, and values outside them all.
BoundaryInts ==
    {Zero, One, MinusOne, FromNat(127), FromNat(128), FromNat(300),
     PyNeg(FromNat(129)), MinInt32, MaxInt32, Pow2(31), Mask32, Pow2(32),
     MinInt64, MaxInt64, Pow2(63), Mask64,
     PyNot(Pow2(31)), PyNot(Pow2(63)), Pow2(64), Pow2(70)}

\* Floats: 0.0, -0.0, 1.0, 1 + 2^-30 (not a binary32), the largest binary32,
\* 2^128 (beyond binary32), +inf and the quiet NaN.
FloatOne == PyFloat(PyShl(FromNat(1023), 52))
FloatHuge == PyFloat(PyShl(FromNat(1151), 52))
Floats ==
    {PyFloat(Zero), PyFloat(Pow2(63)), FloatOne,
     PyFloat(PyOr(PyShl(FromNat(1023), 52), Pow2(22))),
     PyFloat(PyOr(PyShl(FromNat(1150), 52), PyShl(Ones(23), 29))),
     FloatHuge, PyFloat(PyShl(FromNat(2047), 52)), PyFloat(PyShl(FromNat(4095), 51))}

Strings == {<<>>, <<104, 105>>, <<233>>, <<8364, 49>>}
ByteStrings == {<<>>, <<0>>, <<255, 1, 128>>}
IntLists ==
    {<<>>, <<One>>, <<MinusOne, FromNat(300)>>, <<MinInt32, MaxInt32, Zero>>,
     <<MinInt64, MaxInt64>>, <<Mask32, Zero>>, <<Mask64>>,
     <<One, Pow2(31), One>>, <<One, Pow2(63)>>, <<Pow2(64)>>}
BoolLists == {<<>>, <<TRUE>>, <<FALSE, TRUE, TRUE>>}
FloatLists ==
    {<<>>, <<FloatOne>>, <<PyFloat(Pow2(63)), FloatOne>>,
     <<FloatOne, FloatHuge, FloatOne>>}

\* One field alone is written with any of these.
RichFieldNumbers == {One, FromNat(16), MaxFieldNumber, Zero, Pow2(29)}
RichValues(method) ==
    IF method \in IntMethods THEN BoundaryInts
    ELSE IF method \in FloatMethods THEN Floats
    ELSE IF method = "bool" THEN BOOLEAN
    ELSE IF method = "string" THEN Strings
    ELSE IF method = "bytes" THEN ByteStrings
    ELSE IF method = "packed_bools" THEN BoolLists
    ELSE IF method \in {"packed_floats", "packed_doubles"} THEN FloatLists
    ELSE IntLists

\* A call made on a Writer that already holds a field is made with these: the
\* arguments a Writer refuses or writes nothing for, and one it accepts.
EdgeFieldNumbers == {One, Zero, Pow2(29)}
EdgeValues(method) ==
    IF method \in IntMethods THEN {One, Pow2(31), Pow2(64)}
    ELSE IF method \in FloatMethods THEN {FloatOne, FloatHuge}
    ELSE IF method = "bool" THEN {TRUE}
    ELSE IF method = "string" THEN {<<104, 105>>}
    ELSE IF method = "bytes" THEN {<<0>>}
    ELSE IF method = "packed_bools" THEN {<<>>, <<TRUE>>}
    ELSE IF method \in {"packed_floats", "packed_doubles"}
    THEN {<<>>, <<FloatOne>>, <<FloatOne, FloatHuge, FloatOne>>}
    ELSE {<<>>, <<One>>, <<One, Pow2(31), One>>, <<One, Pow2(63)>>}

\* Sequences of calls are made with these.
LeanFieldNumbers == {One, FromNat(2)}
LeanValues(method) ==
    IF method = "uint64" THEN {One, Pow2(70)}
    ELSE IF method \in IntMethods THEN {MinusOne}
    ELSE IF method = "string" THEN {<<104, 105>>}
    ELSE {<<>>, <<MinusOne, FromNat(300)>>}
LeanMethods == {"uint64", "sint32", "fixed64", "sfixed32", "string", "packed_uint32s"}

\* Bytes no Writer made: a tag with any field number and any of the eight
\* wire type ids, then a payload.
RawFieldNumbers == {Zero, One, MaxFieldNumber, Pow2(29), Pow2(40)}
RawPayloads ==
    {<<>>, <<0>>, <<128, 1>>, <<2, 65, 66>>, <<3, 65, 66>>, <<1, 2, 3, 4>>,
     <<1, 2, 3, 4, 5, 6, 7, 8>>}
RawBuffers ==
    {encode_varint(PyOr(PyShl(n, 3), FromNat(w))) \o payload :
        n \in RawFieldNumbers, w \in 0..7, payload \in RawPayloads}

-----------------------------------------------------------------------------
(* Specifications.  Spec: a program that makes up to MaxCalls Writer calls *)
(* (nested Writers included) and then reads the result back.  SpecField:   *)
(* one field, written with boundary arguments or given as raw bytes, read  *)
(* back whole or cut short by a byte, and decoded with every accessor.     *)
(* SpecNested: up to MaxCalls Writer calls on nested Writers, nothing     *)
(* read.  SpecRead: fields of every wire type read back with next_field    *)
(* and skip in any order.  SpecReuse: a Writer used again after finish()  *)
(* and clear().  SpecStruct: the struct codec on messages written field   *)
(* by field and on encoded structs.  SpecChild: a Reader and the Readers   *)
(* made of its nested fields, advanced in any order.  SpecDeep: with-      *)
(* blocks nested up to MaxDepth deep, read back level by level.            *)
(* SpecCodec: the codec functions alone.                                   *)

Init == CodecInit /\ WriterInit /\ ReaderInit

\* Writer calls are made before the first Reader is constructed, on any of
\* the Writers made so far.
AnyWriter == 1..Len(writers)
CanWrite == readers = <<>> /\ Len(wlog) < MaxCalls
FreshWriter == readers = <<>> /\ wlog = <<>>

Next ==
    \/ \E m \in LeanMethods : Do_write(CanWrite, AnyWriter, m, LeanFieldNumbers, LeanValues(m))
    \/ Do_message(CanWrite, AnyWriter, LeanFieldNumbers)
    \/ Do_end(CanWrite, AnyWriter)
    \/ Do_exit(CanWrite, AnyWriter, {"None", "ValueError"})
    \/ Reader_of_finish
    \/ Reader_next_field

Spec == Init /\ [][Next]_vars

\* The Writer holds the field of bool(1, True) and nothing else.
AfterBool ==
    /\ readers = <<>>
    /\ Len(wlog) = 1
    /\ wlog[1].method = "bool" /\ wlog[1].number = One /\ wlog[1].value = TRUE

\* No accessor of the Field returned last has been called.
FirstAccess == ares.name = "none"

\* The last call opened a nested Writer.
ChildOpen ==
    readers = <<>> /\ wlog # <<>> /\ wlog[Len(wlog)].method = "message"

FieldNext ==
    \/ \E m \in WriterMethods :
          Do_write(FreshWriter, AnyWriter, m, RichFieldNumbers, RichValues(m))
    \/ \E m \in WriterMethods :
          Do_write(AfterBool, AnyWriter, m, EdgeFieldNumbers, EdgeValues(m))
    \/ Do_message(FreshWriter \/ AfterBool, AnyWriter, EdgeFieldNumbers)
    \/ Do_end(ChildOpen, AnyWriter)
    \/ Do_exit(ChildOpen, AnyWriter, {"None", "ValueError"})
    \/ Reader_of_finish
    \/ Reader_of_truncated
    \/ Reader_of_raw(RawBuffers)
    \/ Reader_of_raw_truncated(RawBuffers)
    \/ Reader_next_field
    \/ \E name \in Accessors : Get(name)
    \/ Get_message(FirstAccess /\ Len(readers) < MaxReaders)

SpecField == Init /\ [][FieldNext]_vars

\* Nested Writers alone: fields are written, children are opened and closed,
\* with-blocks are left, and nothing is read.
NestedNext ==
    \/ Do_write(CanWrite, AnyWriter, "uint64", {One}, {One, FromNat(300)})
    \/ Do_write(CanWrite, AnyWriter, "string", {FromNat(2)}, {<<104, 105>>})
    \/ Do_message(CanWrite, AnyWriter, LeanFieldNumbers)
    \/ Do_end(CanWrite, AnyWriter)
    \/ Do_exit(CanWrite, AnyWriter, {"None", "ValueError"})

SpecNested == Init /\ [][NestedNext]_vars

\* Reading back: up to MaxCalls fields, one method for each wire type, are
\* written to the root Writer; then the Reader over finish(), or over
\* finish() less its last byte, is advanced with next_field and skip in any
\* order.
ReadNext ==
    \/ Do_write(CanWrite, AnyWriter, "uint64", {One}, {FromNat(300)})
    \/ Do_write(CanWrite, AnyWriter, "fixed64", {FromNat(16)}, {One})
    \/ Do_write(CanWrite, AnyWriter, "sfixed32", {FromNat(3)}, {MinusOne})
    \/ Do_write(CanWrite, AnyWriter, "bytes", {FromNat(4)}, {<<>>, <<8, 1, 18, 0>>})
    \/ Reader_of_finish
    \/ Reader_of_truncated
    \/ Reader_next_field
    \/ Reader_skip

SpecRead == Init /\ [][ReadNext]_vars

\* A Writer that is reused: writes, finish() and clear() in any order on the
\* root Writer, then the Reader over a last finish().
ReuseNext ==
    \/ Do_write(CanWrite, AnyWriter, "uint64", {One}, {FromNat(300)})
    \/ Do_write(CanWrite, AnyWriter, "string", {FromNat(2)}, {<<104, 105>>})
    \/ Do_finish(CanWrite, AnyWriter)
    \/ Do_clear(CanWrite, AnyWriter)
    \/ Reader_of_finish
    \/ Reader_next_field

SpecReuse == Init /\ [][ReuseNext]_vars

\* The struct codec: messages for the Sample struct are written field by
\* field (its own fields, the repeated one packed and non-packed, and fields
\* of number 9, which it does not have, of every wire type) and decoded; or a
\* Sample is encoded and the result decoded.
Building == CanWrite /\ cop = "none"
UnknownFieldNumbers == {FromNat(9)}
SampleValues ==
    {Defaults(SampleDescriptor),
     <<MinusOne, <<>>, <<>> >>,
     <<Zero, <<104, 105>>, <<>> >>,
     <<Zero, <<>>, <<MinusOne, FromNat(300)>> >>,
     <<One, <<104, 105>>, <<One>> >>}

StructNext ==
    \/ Do_write(Building, AnyWriter, "sint64", {One}, {MinusOne})
    \/ Do_write(Building, AnyWriter, "string", {FromNat(2)}, {<<104, 105>>})
    \/ Do_write(Building, AnyWriter, "sint64", {FromNat(3)}, {MinusOne, FromNat(300)})
    \/ Do_write(Building, AnyWriter, "packed_sint64s", {FromNat(3)},
                {<<MinusOne, FromNat(300)>>})
    \/ Do_write(Building, AnyWriter, "uint64", UnknownFieldNumbers, {FromNat(300)})
    \/ Do_write(Building, AnyWriter, "fixed64", UnknownFieldNumbers, {One})
    \/ Do_write(Building, AnyWriter, "fixed32", UnknownFieldNumbers, {One})
    \/ Do_write(Building, AnyWriter, "bytes", UnknownFieldNumbers, {<<8, 1>>})
    \/ Struct_decode(readers = <<>> /\ cop = "none")
    \/ Struct_decode_from
    \/ Struct_encode(wlog = <<>> /\ cop = "none", SampleValues)
    \/ Struct_encode_into
    \/ Struct_decode_encoded

SpecStruct == Init /\ [][StructNext]_vars

\* Parent and child Readers: the Reader over a message that holds a nested
\* message of two fields and then a scalar field, and the Readers
\* that message() makes of its LEN fields, any number of times for one Field,
\* are advanced with next_field and skip in any order; the Field returned
\* last is decoded with accessors in between.
InnerMessage == <<8, 2, 21, 3, 0, 0, 0>>
NestedMessages == {<<18, 7>> \o InnerMessage \o <<16, 5>>}

ChildNext ==
    \/ Reader_of_raw(NestedMessages)
    \/ Reader_next_field
    \/ Reader_skip
    \/ Get_message(Len(readers) <= MaxReaders)
    \/ Get("uint64")

SpecChild == Init /\ [][ChildNext]_vars

\* Nested with-blocks, up to MaxDepth deep: every call is made on the Writer
\* of the innermost block that is still open.  A block writes a uint64 first,
\* then may hold one nested block and write a fixed32 after it; the finished
\* buffer is read with next_field and message() on any Reader, in any order.
Closed(w) ==
    \E i \in 1..Len(wlog) : wlog[i].writer = w /\ wlog[i].method \in {"end", "exit"}
Innermost ==
    CHOOSE w \in AnyWriter : ~Closed(w) /\ \A v \in (w + 1)..Len(writers) : Closed(v)
OpenDepth == Cardinality({w \in AnyWriter : ~Closed(w)}) - 1
InBlock == readers = <<>>
NoChildYet == \A c \in AnyWriter : writers[c].parent # Innermost
Begun == writers[Innermost].buffer # <<>>
ChildJustClosed == wlog # <<>> /\ wlog[Len(wlog)].method = "exit"

DeepNext ==
    \/ Do_write(InBlock /\ ~Begun, {Innermost}, "uint64", {One}, {FromNat(300)})
    \/ Do_message(InBlock /\ Begun /\ NoChildYet /\ OpenDepth < MaxDepth,
                  {Innermost}, {FromNat(2)})
    \/ Do_write(InBlock /\ ChildJustClosed,
                {Innermost}, "fixed32", {FromNat(3)}, {One})
    \/ Do_exit(InBlock /\ Begun /\ Innermost # 1, {Innermost}, {"None"})
    \/ (Innermost = 1 /\ Reader_of_finish)
    \/ Reader_next_field
    \/ Get_message(FirstAccess /\ Len(readers) <= MaxDepth)

SpecDeep == Init /\ [][DeepNext]_vars

SpecCodec == Init /\ [][CodecNext]_vars


-----------------------------------------------------------------------------
(* Properties of the codec functions (checked under SpecCodec).            *)


\* v mod 2^64 for v in [-2^63, 2^64 - 1], by arithmetic.
Mod64(v) == IF IsNeg(v) THEN PyAdd(v, Pow2(64)) ELSE v

\* The value of bits lo..lo+6 of x.
RECURSIVE GroupValue(_, _, _)
GroupValue(x, lo, j) ==
    IF j = 7 THEN 0 ELSE BitAt(x, lo + j) + 2 * GroupValue(x, lo, j + 1)

\* The number of consecutive bytes with the high bit set from offset on.
RECURSIVE LeadingCont(_, _)
LeadingCont(data, offset) ==
    IF offset >= Len(data) \/ data[offset + 1] < 128 THEN 0
    ELSE 1 + LeadingCont(data, offset + 1)

\* C1: for every v in [-2^63, 2^64 - 1], decode_varint(encode_varint(v), 0)
\* returns (v mod 2^64, len(encode_varint(v))).
C1_VarintRoundTrip ==
    (/\ cop = "decode_varint"
     /\ csrc.op = "encode_varint"
     /\ (InI64(csrc.arg) \/ InU64(csrc.arg)))
        => cres = [err |-> "", value |-> Mod64(csrc.arg), pos |-> Len(carg.data)]

\* -2^63 was encoded (ten bytes) and decoded back as 2^63.
C1_Witness ==
    /\ cop = "decode_varint"
    /\ csrc.op = "encode_varint"
    /\ csrc.arg = MinInt64
    /\ Len(carg.data) = 10
    /\ cres.err = ""
    /\ cres.value = Pow2(63)

\* C2: for every v in [0, 2^64 - 1], encode_varint(v) is k = max(1,
\* ceil(bitlength(v) / 7)) bytes, 1 <= k <= 10; byte i holds bits 7i..7i+6 of v
\* in its low 7 bits; the high bit is set on every byte but the last.
C2_VarintLayout ==
    (cop = "encode_varint" /\ InU64(carg)) =>
        LET k == Max2(1, (BitLength(carg) + 6) \div 7)
        IN  /\ Len(cres) = k
            /\ 1 <= k /\ k <= 10
            /\ \A i \in 0..(k - 1) :
                  /\ cres[i + 1] % 128 = GroupValue(carg, 7 * i, 0)
                  /\ (cres[i + 1] >= 128) <=> (i < k - 1)

\* 2^64 - 1 was encoded as ten bytes, the last being 1.
C2_Witness ==
    /\ cop = "encode_varint"
    /\ carg = Mask64
    /\ Len(cres) = 10
    /\ cres[10] = 1

\* C3: decode_varint(buf, offset) returns a value exactly when a byte with the
\* high bit clear is among the first 10 bytes from offset (and then the new
\* offset is just past that byte); it fails with "varint too long" exactly when
\* the first 10 bytes from offset all have the high bit set, whatever follows
\* them (also nothing); it fails with "truncated varint" exactly when the buffer
\* ends after fewer than 10 bytes, all with the high bit set.
C3_DecodeVarintErrors ==
    (cop = "decode_varint") =>
        LET c == LeadingCont(carg.data, carg.offset)
            avail == Len(carg.data) - carg.offset
        IN  /\ (cres.err = "") <=> (c < avail /\ c <= 9)
            /\ (cres.err = "") => (cres.pos = carg.offset + c + 1)
            /\ (cres.err = "varint too long") <=> (c >= 10)
            /\ (cres.err = "truncated varint") <=> (c = avail /\ c < 10)

\* A buffer of exactly ten continuation bytes was refused as too long: no
\* eleventh byte was asked for.
C3_Witness ==
    /\ cop = "decode_varint"
    /\ carg.offset = 0
    /\ Len(carg.data) = 10
    /\ LeadingCont(carg.data, 0) = 10
    /\ cres.err = "varint too long"

\* C4: zigzag_decode(zigzag_encode(v)) = v for every v in the signed 64-bit
\* range (the signed 32-bit range is part of it), and zigzag_encode(v) is 2v for
\* v >= 0 and -2v - 1 for v < 0, a value in [0, 2^64 - 1].
C4_ZigzagRoundTrip ==
    /\ (cop = "zigzag_encode" /\ InI64(carg)) =>
          /\ cres = (IF IsNeg(carg)
                     THEN PySub(PyNeg(PyAdd(carg, carg)), One)
                     ELSE PyAdd(carg, carg))
          /\ InU64(cres)
    /\ (cop = "zigzag_decode" /\ csrc.op = "zigzag_encode" /\ InI64(csrc.arg)) =>
          cres = csrc.arg

\* -2^63 was encoded as 2^64 - 1 and decoded back.
C4_Witness ==
    /\ cop = "zigzag_decode"
    /\ csrc.arg = MinInt64
    /\ carg = Mask64
    /\ cres = MinInt64

\* n * 8 by repeated addition.
Times8(n) == LET n2 == PyAdd(n, n) n4 == PyAdd(n2, n2) IN PyAdd(n4, n4)

\* C7: for every field number n in [1, 2^29 - 1] and wire type w in {0, 1, 2, 5},
\* make_tag(n, w) = n * 8 + w and parse_tag(make_tag(n, w)) = (n, w).
C7_TagRoundTrip ==
    /\ (/\ cop = "make_tag"
        /\ PyGe(carg.field_number, One)
        /\ PyLe(carg.field_number, MaxFieldNumber)
        /\ carg.wire_type \in WireTypes) =>
          cres = [err |-> "",
                  tag |-> PyAdd(Times8(carg.field_number), FromNat(carg.wire_type))]
    /\ (/\ cop = "parse_tag"
        /\ csrc.op = "make_tag"
        /\ PyGe(csrc.arg.field_number, One)
        /\ PyLe(csrc.arg.field_number, MaxFieldNumber)
        /\ csrc.arg.wire_type \in WireTypes) =>
          cres = [err |-> "", field_number |-> csrc.arg.field_number,
                  wire_type |-> csrc.arg.wire_type]

\* The tag of the maximum field number 536870911 was made and parsed back.
C7_Witness ==
    /\ cop = "parse_tag"
    /\ csrc.op = "make_tag"
    /\ csrc.arg.field_number = MaxFieldNumber
    /\ csrc.arg.wire_type = FIXED32
    /\ cres.err = ""
    /\ cres.field_number = MaxFieldNumber

-----------------------------------------------------------------------------
(* Properties of one field read back (checked under SpecField).  The tag   *)
(* that parse_tag was given is the varint at the offset where the last     *)
(* next_field call started; next_field raises parse_tag's error unchanged. *)

ReservedWireTypes == {3, 4, 6, 7}

\* The varint at the offset where the last next_field call started.
LastTag == decode_varint(readers[rres.reader].data, rres.at)

\* The low three bits of tag, and the bits above them.
TagLowBits(tag) == BitAt(tag, 0) + 2 * BitAt(tag, 1) + 4 * BitAt(tag, 2)
TagFieldNumber(tag) == PyShr(tag, 3)

\* The last call was next_field and it got as far as parse_tag.
ParsedATag == rres.op = "next_field" /\ LastTag.err = ""

\* Every Field a Reader has returned.
YieldedFields ==
    UNION {{yielded[r][i] : i \in 1..Len(yielded[r])} : r \in 1..Len(yielded)}

\* C5 (as the code has it): every tag whose low three bits are 3, 4, 6 or 7 is
\* rejected by parse_tag and so by next_field, with "invalid wire type" when its
\* field number is at least 1 and with "invalid field number" when its field
\* number is 0; no Field with a wire type outside {0, 1, 2, 5} is ever yielded.
C5_ReservedWireTypeRejected ==
    /\ (ParsedATag /\ TagLowBits(LastTag.value) \in ReservedWireTypes) =>
          /\ rres.kind = "error"
          /\ rres.err = (IF TagFieldNumber(LastTag.value) = Zero
                         THEN "invalid field number"
                         ELSE "invalid wire type")
    /\ \A f \in YieldedFields : f.wire_type \in WireTypes

\* C5 (as stated): every tag whose low three bits are 3, 4, 6 or 7 is rejected
\* with "invalid wire type", and no Field with a wire type outside {0, 1, 2, 5}
\* is ever yielded.
C5_AlwaysInvalidWireType ==
    /\ (ParsedATag /\ TagLowBits(LastTag.value) \in ReservedWireTypes) =>
          /\ rres.kind = "error"
          /\ rres.err = "invalid wire type"
    /\ \A f \in YieldedFields : f.wire_type \in WireTypes

\* A tag of field number 2^29 - 1 and wire type id 7 was read and refused.
C5_Witness ==
    /\ ParsedATag
    /\ TagLowBits(LastTag.value) = 7
    /\ TagFieldNumber(LastTag.value) = MaxFieldNumber
    /\ rres.kind = "error"
    /\ rres.err = "invalid wire type"

\* C6: every tag whose field number (tag >> 3) is 0 or above 2^29 - 1 is
\* rejected with "invalid field number", and every Field yielded by the Reader
\* has a field number in [1, 2^29 - 1].
C6_FieldNumberInRange ==
    /\ (/\ ParsedATag
        /\ \/ TagFieldNumber(LastTag.value) = Zero
           \/ PyGt(TagFieldNumber(LastTag.value), MaxFieldNumber)) =>
          /\ rres.kind = "error"
          /\ rres.err = "invalid field number"
    /\ \A f \in YieldedFields :
          PyGe(f.number, One) /\ PyLe(f.number, MaxFieldNumber)

\* The wire type and the range of each integer scalar kind.
ScalarKinds == IntMethods \cup {"bool"}
KindWireType(k) ==
    IF k \in {"fixed64", "sfixed64"} THEN FIXED64
    ELSE IF k \in {"fixed32", "sfixed32"} THEN FIXED32
    ELSE VARINT
InRangeOf(k, v) ==
    IF k = "bool" THEN v \in BOOLEAN
    ELSE IF k \in {"int32", "sint32", "sfixed32", "enum"} THEN InI32(v)
    ELSE IF k \in {"int64", "sint64", "sfixed64"} THEN InI64(v)
    ELSE IF k \in {"uint32", "fixed32"} THEN InU32(v)
    ELSE InU64(v)

\* The program wrote one scalar of kind k with an in-range value and made a
\* Reader of writer.finish().
WroteOneScalar ==
    /\ Len(wlog) = 1
    /\ wlog[1].method \in ScalarKinds
    /\ InRangeOf(wlog[1].method, wlog[1].value)
    /\ PyGe(wlog[1].number, One) /\ PyLe(wlog[1].number, MaxFieldNumber)
    /\ rsrc.how = "finish"

\* C8: for each integer scalar kind k and every value v in k's range, after
\* Writer.k(n, v) the Reader over writer.finish() holds a single Field, of
\* number n and of the wire type k maps to, and Field.k() returns exactly v.
C8_ScalarRoundTrip ==
    WroteOneScalar =>
        /\ wlog[1].err = ""
        /\ (rres.op = "next_field" /\ rres.at = 0) =>
              /\ rres.kind = "field"
              /\ rres.field.number = wlog[1].number
              /\ rres.field.wire_type = KindWireType(wlog[1].method)
              /\ readers[1].pos = readers[1].len
              /\ (ares.name = wlog[1].method) =>
                    (ares.err = "" /\ ares.value = wlog[1].value)
        /\ (rres.op = "next_field" /\ rres.at > 0) => rres.kind = "none"

\* int32(n, -2^31) was written as a ten-byte varint and read back as -2^31.
C8_Witness ==
    /\ WroteOneScalar
    /\ wlog[1].method = "int32"
    /\ wlog[1].value = MinInt32
    /\ wlog[1].number = MaxFieldNumber
    /\ rres.kind = "field"
    /\ ares.name = "int32"
    /\ ares.value = MinInt32

TruncationErrors ==
    {"truncated varint", "truncated fixed32", "truncated fixed64",
     "truncated length-delimited field"}

\* The whole buffer is one well-formed field: a Reader over it returns a Field
\* that ends where the buffer ends.
SingleField(data) ==
    LET res == next_field(Reader(data))
    IN  res.kind = "field" /\ res.pos = Len(data)

VarintAccessors ==
    {"int32", "int64", "uint32", "uint64", "sint32", "sint64", "bool", "enum"}
Fixed64Accessors == {"fixed64", "sfixed64", "double"}
Fixed32Accessors == {"fixed32", "sfixed32", "float"}
AccessorWireType(name) ==
    IF name \in VarintAccessors THEN VARINT
    ELSE IF name \in Fixed64Accessors THEN FIXED64
    ELSE IF name \in Fixed32Accessors THEN FIXED32
    ELSE LEN

\* C11: every typed accessor (the VARINT, FIXED64, FIXED32 and LEN accessors,
\* message and the packed ones included) called on a Field whose wire type is
\* not the one the accessor requires raises "wire type mismatch" and returns no
\* value.
C11_WireTypeMismatch ==
    (/\ ares.name # "none"
     /\ rres.field.wire_type # AccessorWireType(ares.name)) =>
        /\ ares.err = "wire type mismatch"
        /\ ares.value = Zero

\* packed_fixed32s() was called on a VARINT Field and raised.
C11_Witness ==
    /\ ares.name = "packed_fixed32s"
    /\ rres.field.wire_type = VARINT
    /\ ares.err = "wire type mismatch"

-----------------------------------------------------------------------------
(* Properties of a sequence of writes read back (checked under Spec).      *)

\* The calls that appended a field to the root Writer, in the order made.
IsRootField(e) == e.target = 1 /\ e.emits
RootFields == SelectSeq(wlog, IsRootField)

\* C9: after any sequence of successful Writer calls, iterating a Reader over
\* writer.finish() raises nothing and yields exactly one Field per field
\* written to the root Writer (scalar, string, non-empty packed list, ended
\* nested message), in the order written, each with its field number and
\* wire type.
C9_FieldsInWriteOrder ==
    (/\ rsrc.how = "finish"
     /\ \A i \in 1..Len(wlog) : wlog[i].err = "") =>
        /\ rres.kind # "error"
        /\ Len(yielded[1]) <= Len(RootFields)
        /\ \A i \in 1..Len(yielded[1]) :
              /\ yielded[1][i].number = RootFields[i].number
              /\ yielded[1][i].wire_type = RootFields[i].wire_type
        /\ (rres.op = "next_field" /\ rres.kind = "none") =>
              Len(yielded[1]) = Len(RootFields)

-----------------------------------------------------------------------------
(* Properties of single Writer calls (checked under SpecField).  Each      *)
(* logged call holds the target's buffer before and after it.              *)

\* The LEN field of number n with payload bytes: the varint of n * 8 + 2, the
\* varint of the number of bytes, the bytes.
LenField(n, bytes) ==
    encode_varint(PyAdd(Times8(n), FromNat(2)))
        \o encode_varint(FromNat(Len(bytes))) \o bytes

InvalidNumber(n) == PyLt(n, One) \/ PyGt(n, MaxFieldNumber)
FieldNumberErrors == {"field_number must be >= 1", "field_number too large"}

\* Call e attempts to append a field: a write method, or end()/normal
\* with-block exit of a child (message() appends nothing, nor does an end of a
\* Writer without a parent, nor a with-block left by an exception).
AttemptsWrite(e) ==
    IF e.method \in {"end", "exit"}
    THEN e.target # e.writer /\ (e.method = "end" \/ e.value = "None")
    ELSE e.method # "message"

PackedEmpty(e) == e.method \in PackedMethods /\ e.value = <<>>

ElementKind(method) ==
    CASE method = "packed_int32s" -> "int32"
      [] method = "packed_int64s" -> "int64"
      [] method = "packed_uint32s" -> "uint32"
      [] method = "packed_uint64s" -> "uint64"
      [] method = "packed_sint32s" -> "sint32"
      [] method = "packed_sint64s" -> "sint64"
      [] method = "packed_bools" -> "bool"
      [] method = "packed_fixed32s" -> "fixed32"
      [] method = "packed_sfixed32s" -> "sfixed32"
      [] method = "packed_fixed64s" -> "fixed64"
      [] method = "packed_sfixed64s" -> "sfixed64"
      [] method = "packed_floats" -> "float"
      [] method = "packed_doubles" -> "double"
PackedIntMethods == PackedMethods \ {"packed_floats", "packed_doubles"}

\* Call e passes an integer outside the range of its kind, alone or in a list.
IntOutOfRange(e) ==
    \/ e.method \in IntMethods /\ ~InRangeOf(e.method, e.value)
    \/ /\ e.method \in PackedIntMethods \ {"packed_bools"}
       /\ \E k \in 1..Len(e.value) : ~InRangeOf(ElementKind(e.method), e.value[k])

\* C17: a Writer write whose value (or one element of whose packed list) is
\* outside the range of its kind raises an error at that call, and the
\* Writer's buffer after the call is what it was before it.
C17_OutOfRangeValueRejected ==
    \A i \in 1..Len(wlog) :
        (IntOutOfRange(wlog[i]) /\ ~InvalidNumber(wlog[i].number)) =>
            /\ wlog[i].err # ""
            /\ wlog[i].after = wlog[i].before

\* C18: every packed_* write method called with an empty list raises nothing
\* and leaves the Writer's buffer unchanged, so a Reader over the result
\* yields no Field for the call: after bool(1, True) and the call it yields
\* the bool field alone, after the call alone it yields nothing.
C18_EmptyPackedWritesNothing ==
    /\ \A i \in 1..Len(wlog) :
          PackedEmpty(wlog[i]) =>
              wlog[i].err = "" /\ wlog[i].after = wlog[i].before
    /\ (/\ wlog # <<>>
        /\ PackedEmpty(wlog[Len(wlog)])
        /\ rsrc.how = "finish") =>
          /\ rres.kind # "error"
          /\ Len(yielded[1]) <= Len(wlog) - 1
          /\ \A k \in 1..Len(yielded[1]) : yielded[1][k].wire_type = VARINT
          /\ (rres.op = "next_field" /\ rres.kind = "none") =>
                Len(yielded[1]) = Len(wlog) - 1

\* packed_doubles(n, []) was called on a Writer holding a bool field, and the
\* Reader over the result yielded that field and came to the end.
C18_Witness ==
    /\ Len(wlog) = 2
    /\ wlog[2].method = "packed_doubles"
    /\ wlog[2].value = <<>>
    /\ wlog[2].before = <<8, 1>>
    /\ rsrc.how = "finish"
    /\ rres.op = "next_field"
    /\ rres.kind = "none"
    /\ Len(yielded[1]) = 1

\* The element width of each packed fixed-width accessor.
PackedFixed32Accessors == {"packed_fixed32s", "packed_sfixed32s", "packed_floats"}
PackedFixed64Accessors == {"packed_fixed64s", "packed_sfixed64s", "packed_doubles"}
ElementWidth(name) == IF name \in PackedFixed32Accessors THEN 4 ELSE 8
LengthMismatch(name) ==
    "packed " \o ElementKind(name) \o " data length not a multiple of "
        \o (IF ElementWidth(name) = 4 THEN "4" ELSE "8")

\* C19: a packed fixed-width accessor called on a LEN Field raises the
\* "not a multiple of 4" / "not a multiple of 8" error whenever the payload
\* length is not a multiple of the element width, and otherwise returns a list
\* of exactly payload length / width elements.
C19_PackedLengthChecked ==
    (/\ ares.name \in PackedFixed32Accessors \cup PackedFixed64Accessors
     /\ rres.field.wire_type = LEN) =>
        IF Len(rres.field.data) % ElementWidth(ares.name) # 0
        THEN ares.err = LengthMismatch(ares.name)
        ELSE /\ ares.err = ""
             /\ Len(ares.value) = Len(rres.field.data) \div ElementWidth(ares.name)

\* packed_sfixed64s() was refused on a payload of 12 bytes, which
\* packed_fixed32s() would read as three elements.
C19_Witness ==
    /\ ares.name = "packed_sfixed64s"
    /\ rres.field.wire_type = LEN
    /\ Len(rres.field.data) = 12
    /\ ares.err = "packed sfixed64 data length not a multiple of 8"
    /\ Field_packed_fixed32s(rres.field).err = ""
    /\ Len(Field_packed_fixed32s(rres.field).value) = 3

\* What the scalar method of kind k writes for v after the tag of field 1.
RawEncoding(k, v) == Tail(Writer_call(k, <<>>, One, v).buffer)

\* The program wrote one non-empty packed list of in-range integers or bools
\* and made a Reader of writer.finish().
WroteOnePackedList ==
    /\ Len(wlog) = 1
    /\ wlog[1].method \in PackedIntMethods
    /\ wlog[1].value # <<>>
    /\ \A k \in 1..Len(wlog[1].value) :
          InRangeOf(ElementKind(wlog[1].method), wlog[1].value[k])
    /\ ~InvalidNumber(wlog[1].number)
    /\ rsrc.how = "finish"

\* C20: for each packed integer kind k and every non-empty list vs of in-range
\* values, Writer.packed_k(n, vs) writes one LEN field of number n whose
\* payload is the concatenation of the per-value encodings without tags, and
\* Field.packed_k() on that field returns vs.
C20_PackedRoundTrip ==
    WroteOnePackedList =>
        LET vs == wlog[1].value
            k == ElementKind(wlog[1].method)
            payload == Concat([i \in 1..Len(vs) |-> RawEncoding(k, vs[i])])
        IN  /\ wlog[1].err = ""
            /\ wlog[1].after = LenField(wlog[1].number, payload)
            /\ (rres.op = "next_field" /\ rres.reader = 1 /\ rres.at = 0) =>
                  /\ rres.kind = "field"
                  /\ rres.field.number = wlog[1].number
                  /\ rres.field.wire_type = LEN
                  /\ rres.field.data = payload
                  /\ readers[1].pos >= Len(wlog[1].after)
                  /\ (ares.name = wlog[1].method) =>
                        (ares.err = "" /\ ares.value = vs)
            /\ (rres.op = "next_field" /\ rres.reader = 1 /\ rres.at > 0) =>
                  rres.kind = "none"

\* packed_sint64s(n, [-2^63, 2^63 - 1]) was written and read back.
C20_Witness ==
    /\ WroteOnePackedList
    /\ wlog[1].method = "packed_sint64s"
    /\ wlog[1].value = <<MinInt64, MaxInt64>>
    /\ rres.kind = "field"
    /\ ares.name = "packed_sint64s"
    /\ ares.value = <<MinInt64, MaxInt64>>

-----------------------------------------------------------------------------
(* Properties of nested Writers (checked under SpecNested).  A step that  *)
(* makes a Writer call appends the call to wlog.                           *)

Called == Len(wlog') = Len(wlog) + 1
LastCall == wlog'[Len(wlog')]

\* Writer c has been appended to its parent: by end(), or by leaving its
\* with-block without an exception.
Ended(c) ==
    \E i \in 1..Len(wlog) :
        wlog[i].writer = c /\ wlog[i].method \in {"end", "exit"} /\ wlog[i].emits

\* end() was called on Writer c or its with-block was left, in any way.
ScopeLeft(c) ==
    \E i \in 1..Len(wlog) : wlog[i].writer = c /\ wlog[i].method \in {"end", "exit"}

\* C12: for child = parent.message(n), a call on the open child other than the
\* one that ends it leaves the parent's buffer unchanged, and end() or the
\* normal exit of the with-block makes the parent's buffer its previous
\* contents followed by the tag (n << 3) | LEN, the varint of the child's
\* length and the child's bytes (a LEN field of length 0 for an empty child).
C12_ChildAppendedOnEnd ==
    [][(Called /\ writers[LastCall.writer].parent # 0 /\ ~Ended(LastCall.writer)) =>
          LET c == LastCall.writer
              p == writers[c].parent
          IN  IF \/ LastCall.method = "end"
                 \/ (LastCall.method = "exit" /\ LastCall.value = "None")
              THEN writers'[p].buffer =
                     writers[p].buffer
                         \o LenField(writers[c].field_num, writers[c].buffer)
              ELSE LastCall.method # "exit" =>
                     writers'[p].buffer = writers[p].buffer]_vars

\* A child that holds a field was appended to its parent when its with-block
\* was left.
C12_Witness ==
    \E i \in 1..Len(wlog) :
        /\ wlog[i].method = "exit"
        /\ wlog[i].emits
        /\ writers[wlog[i].writer].buffer # <<>>
        /\ wlog[i].after =
              wlog[i].before
                  \o LenField(wlog[i].number, writers[wlog[i].writer].buffer)

\* C13: the with-block of a nested Writer appends the child's tag, length and
\* bytes to the parent however it is left, by an exception included.
C13_FinalizedOnEveryExit ==
    [][(/\ Called
        /\ LastCall.method = "exit"
        /\ writers[LastCall.writer].parent # 0
        /\ ~Ended(LastCall.writer)) =>
          LET c == LastCall.writer
              p == writers[c].parent
          IN  writers'[p].buffer =
                writers[p].buffer
                    \o LenField(writers[c].field_num, writers[c].buffer)]_vars

\* C14: once a child Writer has been ended, no later call on it (a field
\* write, a second end(), leaving a with-block) changes the parent's buffer.
C14_EndedChildIsFrozen ==
    [][(Called /\ writers[LastCall.writer].parent # 0 /\ Ended(LastCall.writer)) =>
          LET p == writers[LastCall.writer].parent
          IN  writers'[p].buffer = writers[p].buffer]_vars

\* Writer w has a child whose scope has not been left.
HasOpenChild(w) ==
    \E c \in 1..Len(writers) : writers[c].parent = w /\ ~ScopeLeft(c)

\* C15: no field write to a Writer takes effect while one of its children is
\* still open.
C15_NoParentWriteWhileChildOpen ==
    [][(/\ Called
        /\ LastCall.method \notin {"message", "end", "exit"}
        /\ HasOpenChild(LastCall.writer)) =>
          writers'[LastCall.writer].buffer = writers[LastCall.writer].buffer]_vars

-----------------------------------------------------------------------------
(* Properties of a Reader advanced with next_field and skip (checked under *)
(* SpecRead, where every call wrote one well-formed field to the root      *)
(* Writer).                                                                *)

\* The number of fields Reader r has passed: those it returned and those it
\* skipped.
Passed(r) == Len(yielded[r]) + skipped[r]

\* The offsets in writer.finish() where the k-th top-level field starts and
\* ends.
FieldStart(k) == Len(RootFields[k].before)
FieldEnd(k) == Len(RootFields[k].after)

\* C21: on the Reader over a buffer of N top-level fields, skip() never raises,
\* returns True only while fields are left (so exactly N times in a run of
\* skips) and False once all N are passed; each skip() that returns True moves
\* the cursor from the start to the end of one whole field, and a next_field
\* call made after j fields were passed returns the (j+1)-th field written.
C21_SkipPassesOneField ==
    rsrc.how = "finish" =>
        /\ Passed(1) <= Len(RootFields)
        /\ rres.op = "skip" =>
              /\ rres.kind \in {"true", "false"}
              /\ rres.kind = "false" <=> rres.at = readers[1].len
              /\ rres.kind = "false" => Passed(1) = Len(RootFields)
              /\ rres.kind = "true" =>
                    /\ rres.at = FieldStart(Passed(1))
                    /\ readers[1].pos = FieldEnd(Passed(1))
        /\ (rres.op = "next_field" /\ rres.kind = "field") =>
              /\ rres.field.number = RootFields[Passed(1)].number
              /\ rres.field.wire_type = RootFields[Passed(1)].wire_type
              /\ rres.at = FieldStart(Passed(1))
              /\ readers[1].pos = FieldEnd(Passed(1))

\* Three fields, a LEN field with a payload among them, were skipped one after
\* the other and the next skip() returned False.
C21_Witness ==
    /\ Len(RootFields) = 3
    /\ \E i \in 1..3 : wlog[i].method = "bytes" /\ wlog[i].value # <<>>
    /\ yielded = << <<>> >>
    /\ skipped = <<3>>
    /\ rres.op = "skip" /\ rres.kind = "false"

-----------------------------------------------------------------------------
(* Properties of nested messages read back level by level (checked under   *)
(* SpecDeep).                                                              *)

\* The calls that appended a field to Writer w, in the order made.
Items(w) == SelectSeq(wlog, LAMBDA e : e.target = w /\ e.emits)

\* The Writer whose content Reader r reads: the root Writer for the root
\* Reader, and for a Reader made by message() the child Writer whose exit
\* appended the Field it was made from (0 when there is none).
RECURSIVE WriterOf(_)
WriterOf(r) ==
    IF r = 1 THEN 1
    ELSE LET w == WriterOf(origin[r][1])
             i == origin[r][2]
         IN  IF w = 0 THEN 0
             ELSE IF i > Len(Items(w)) THEN 0
             ELSE IF Items(w)[i].method \in {"end", "exit"} THEN Items(w)[i].writer
             ELSE 0

\* Field f is the field that call e appended: its number, its wire type and
\* its value (for a nested message, the bytes of the child Writer).
ItemMatches(e, f) ==
    /\ f.number = e.number
    /\ f.wire_type = e.wire_type
    /\ e.method = "uint64" => Field_uint64(f) = Got(e.value)
    /\ e.method = "fixed32" => Field_fixed32(f) = Got(e.value)
    /\ e.method \in {"end", "exit"} =>
          /\ Field_message(f).err = ""
          /\ Field_message(f).value = Reader(writers[e.writer].buffer)

\* C22: with blocks nested up to MaxDepth deep (three levels and more), the
\* Reader over finish() and every Reader made by message() on a nested field
\* reads exactly the bytes of its Writer, never raises, yields the fields
\* written to that Writer in order with their numbers, wire types and values,
\* and returns None exactly when its cursor is at the end of its span, with
\* every field of its Writer yielded and none besides.
C22_NestedRoundTrip ==
    \A r \in 1..Len(readers) :
        WriterOf(r) # 0 =>
            /\ readers[r].data = writers[WriterOf(r)].buffer
            /\ Len(yielded[r]) <= Len(Items(WriterOf(r)))
            /\ \A i \in 1..Len(yielded[r]) :
                  ItemMatches(Items(WriterOf(r))[i], yielded[r][i])
            /\ readers[r].pos = readers[r].len =>
                  Len(yielded[r]) = Len(Items(WriterOf(r)))
            /\ (rres.op = "next_field" /\ rres.reader = r) =>
                  /\ rres.kind # "error"
                  /\ rres.kind = "none" <=> rres.at = readers[r].len

\* Three levels below the root were read: each Reader yielded its uint64, the
\* nested message and the fixed32 after it, the innermost its single field,
\* and the innermost Reader then returned None.
C22_Witness ==
    /\ Len(readers) = 4
    /\ \A r \in 1..4 : WriterOf(r) = r
    /\ \A r \in 1..3 : Len(yielded[r]) = 3
    /\ Len(yielded[4]) = 1
    /\ rres.reader = 4 /\ rres.kind = "none"

\* The total encoded size (tag and payload) of the first k top-level fields.
RECURSIVE SizeOfFields(_)
SizeOfFields(k) ==
    IF k = 0 THEN 0 ELSE SizeOfFields(k - 1) + (FieldEnd(k) - FieldStart(k))

\* C24: in every step, for every Reader (over a whole or a truncated buffer
\* of length L): remaining() is in 0..L and does not grow; a next_field or
\* skip call finds the end of the message (None, False) exactly when
\* remaining() was 0 when it was made; and on the Reader over finish(), where
\* no call raises, remaining() is L less the total encoded size of the
\* fields returned or skipped so far.
C24_RemainingCountsDown ==
    [][\A r \in 1..Len(readers') :
          /\ remaining(readers'[r]) \in 0..readers'[r].len
          /\ r <= Len(readers) => remaining(readers'[r]) <= remaining(readers[r])
          /\ rres'.reader = r =>
                (rres'.kind \in {"none", "false"}
                   <=> remaining([readers'[r] EXCEPT !.pos = rres'.at]) = 0)
          /\ rsrc'.how = "finish" =>
                /\ rres'.kind # "error"
                /\ remaining(readers'[r])
                     = readers'[r].len - SizeOfFields(Len(yielded'[r]) + skipped'[r])
      ]_vars

\* Of three fields one was returned and one skipped: remaining() is the size
\* of the third.
C24_Witness ==
    /\ rsrc.how = "finish"
    /\ Len(RootFields) = 3
    /\ Len(yielded[1]) = 1 /\ skipped[1] = 1
    /\ remaining(readers[1]) = FieldEnd(3) - FieldStart(3)
    /\ remaining(readers[1]) > 0

-----------------------------------------------------------------------------
(* Properties of finish() and clear() (checked under SpecReuse).           *)

\* The index of the last clear() before call i (0 when there is none), and
\* the bytes call j appends when it is made on an empty Writer.
LastClear(i) ==
    LET cs == {j \in 1..(i - 1) : wlog[j].method = "clear"}
    IN  IF cs = {} THEN 0 ELSE CHOOSE j \in cs : \A k \in cs : k <= j
OwnBytes(j) ==
    IF wlog[j].emits
    THEN Writer_call(wlog[j].method, <<>>, wlog[j].number, wlog[j].value).buffer
    ELSE <<>>

\* The fields written since the last clear() before call i, one after the
\* other.
ContentBefore(i) ==
    Concat([k \in 1..(i - 1 - LastClear(i)) |-> OwnBytes(LastClear(i) + k)])

\* C23: finish() returns the fields written since the last clear() (nothing
\* on a fresh Writer) and leaves the buffer as it is; a write appends to that
\* content whether or not finish() was called before it; clear() leaves the
\* buffer empty; and the Reader over a last finish() yields only the fields
\* written since the last clear().
C23_FinishKeepsClearEmpties ==
    /\ \A i \in 1..Len(wlog) :
          /\ wlog[i].before = ContentBefore(i)
          /\ wlog[i].method = "finish" =>
                /\ wlog[i].err = ""
                /\ wlog[i].value = ContentBefore(i)
                /\ wlog[i].after = wlog[i].before
          /\ wlog[i].method = "clear" => wlog[i].after = <<>>
          /\ wlog[i].emits => wlog[i].after = ContentBefore(i) \o OwnBytes(i)
    /\ rsrc.how = "finish" =>
          /\ readers[1].data = ContentBefore(Len(wlog) + 1)
          /\ Len(yielded[1]) <= Len(wlog) - LastClear(Len(wlog) + 1)
          /\ rres.kind # "error"

\* uint64(1, 300), finish(), string(2, "hi"): the Reader over the next
\* finish() yielded both fields.
C23_Witness ==
    /\ Len(wlog) = 3
    /\ wlog[1].method = "uint64"
    /\ wlog[2].method = "finish" /\ wlog[2].value # <<>>
    /\ wlog[3].method = "string"
    /\ rsrc.how = "finish"
    /\ Len(yielded[1]) = 2
    /\ rres.kind = "none"

-----------------------------------------------------------------------------
(* Properties of the struct codec (SpecStruct).                            *)

\* The value the writes of a run give the field of descriptor k: a scalar
\* holds the value written last under its number, or its default; a repeated
\* scalar holds the values written under its number, packed or one by one, in
\* the order written.  Writes under other numbers play no part.
KnownValue(k) ==
    LET d == SampleDescriptor[k]
        js == {j \in 1..Len(wlog) : wlog[j].number = d.number}
    IN  IF d.kind = "scalar"
        THEN IF js = {} THEN d.default
             ELSE wlog[CHOOSE j \in js : \A i \in js : i <= j].value
        ELSE Concat([j \in 1..Len(wlog) |->
                        IF wlog[j].number # d.number THEN <<>>
                        ELSE IF wlog[j].method = d.packed THEN wlog[j].value
                        ELSE <<wlog[j].value>>])
KnownStruct == <<KnownValue(1), KnownValue(2), KnownValue(3)>>

\* The fields of the written message whose number has no descriptor.
UnknownWrites ==
    {j \in 1..Len(wlog) : Lookup(SampleDescriptor, wlog[j].number) = 0}

\* C25: decoding a written message into the Sample struct succeeds whatever
\* fields of unknown number it holds, and the struct it returns is the one
\* the fields of known number give, which is the struct the message without
\* its unknown fields decodes to (that message is written by the same calls
\* less the ones of unknown number).
C25_UnknownFieldsSkipped ==
    (cop \in {"decode_from", "decode"} /\ csrc.op = "finish") =>
        /\ cres.err = ""
        /\ cop = "decode" => cres.value = KnownStruct

\* A message with unknown fields of two wire types among known ones was
\* decoded.
C25_Witness ==
    /\ cop = "decode" /\ csrc.op = "finish"
    /\ cres.err = ""
    /\ cres.value # Defaults(SampleDescriptor)
    /\ \E j, k \in UnknownWrites :
          /\ wlog[j].wire_type = LEN
          /\ wlog[k].wire_type = FIXED32
    /\ Len(wlog) = 3

\* The fields of a struct value that do not hold their default, each written
\* by its Writer method, in the order of the table.
NonDefaultFields(value) ==
    Concat([k \in 1..Len(SampleDescriptor) |->
              IF value[k] = SampleDescriptor[k].default THEN <<>>
              ELSE Writer_call(IF SampleDescriptor[k].kind = "scalar"
                               THEN SampleDescriptor[k].proto_type
                               ELSE SampleDescriptor[k].packed,
                               <<>>, SampleDescriptor[k].number, value[k]).buffer])

PackedWrites == {j \in 1..Len(wlog) : wlog[j].method = "packed_sint64s"}
SingleWrites ==
    {j \in 1..Len(wlog) : wlog[j].method = "sint64" /\ wlog[j].number = FromNat(3)}

\* C27: the repeated scalar field decodes to the list of the values written,
\* in the order written, whether they were written packed in one LEN field,
\* one VARINT field per value, or both ways in one message; so the packed and
\* the non-packed encoding of the same values decode to the same list.  A
\* struct that is encoded (packed) decodes to the list it held.
C27_PackedAndUnpackedAgree ==
    /\ (cop = "decode" /\ csrc.op = "finish") =>
          /\ cres.err = ""
          /\ cres.value[3] = KnownValue(3)
          /\ Len(cres.value[3]) = 2 * Cardinality(PackedWrites) + Cardinality(SingleWrites)
    /\ (cop = "decode" /\ csrc.op = "encode") =>
          /\ cres.err = ""
          /\ cres.value[3] = csrc.arg[3]

\* packed_sint64s(3, [-1, 300]), sint64(3, -1) and sint64(3, 300) in one
\* message, in any order of the two forms: the list holds -1, 300 twice.
C27_Witness ==
    /\ cop = "decode" /\ csrc.op = "finish"
    /\ Cardinality(PackedWrites) = 1
    /\ Cardinality(SingleWrites) = 2
    /\ cres.err = ""
    /\ cres.value[3] = <<MinusOne, FromNat(300), MinusOne, FromNat(300)>>

-----------------------------------------------------------------------------
(* The range of decoded varints (SpecCodec).                               *)

\* C28: every value decode_varint returns is in the unsigned 64-bit range
\* 0 .. 2^64 - 1.
C28_VarintWithin64Bits ==
    (cop = "decode_varint" /\ cres.err = "") =>
        /\ PyGe(cres.value, Zero)
        /\ PyLe(cres.value, Mask64)

-----------------------------------------------------------------------------
(* The cursor of a Reader after a failed read (SpecRead).                  *)

\* C29: when next_field or skip raises, the cursor of the Reader is where it
\* was before the call.
C29_FailedReadKeepsCursor ==
    rres.kind = "error" => readers[rres.reader].pos = rres.at

-----------------------------------------------------------------------------
(* Parent and child Readers (SpecChild).                                   *)

\* The fields a Reader yields when it is iterated alone from rd on, each with
\* the cursor after it.
RECURSIVE AloneFrom(_, _)
AloneFrom(rd, acc) ==
    LET res == next_field(rd)
    IN  IF res.kind # "field" THEN acc
        ELSE AloneFrom([rd EXCEPT !.pos = res.pos],
                       Append(acc, [field |-> res.field, pos |-> res.pos]))
Alone(r) == AloneFrom(Reader(readers[r].data), <<>>)

\* Every Reader is where the calls made on it alone put it: a child Reader
\* holds the payload of the Field it was made of, the cursor of a Reader that
\* passed k fields is the one after the k-th field of its own buffer, a
\* next_field call returns that k-th field, and the end is reported after
\* the last one; no call raises.
EachReaderAlone ==
    /\ \A r \in 1..Len(readers) :
          /\ Passed(r) <= Len(Alone(r))
          /\ readers[r].pos = IF Passed(r) = 0 THEN 0 ELSE Alone(r)[Passed(r)].pos
          /\ r > 1 => readers[r].data = yielded[origin[r][1]][origin[r][2]].data
    /\ rres.kind # "error"
    /\ (rres.op = "next_field" /\ rres.kind = "field") =>
          rres.field = Alone(rres.reader)[Passed(rres.reader)].field
    /\ (rres.op # "none" /\ rres.kind \in {"none", "false"}) =>
          Passed(rres.reader) = Len(Alone(rres.reader))

\* C30: under every interleaving of next_field and skip on a Reader and on
\* the Readers message() made of its LEN fields, each Reader yields the
\* fields it yields when iterated alone; a call on one Reader leaves every
\* other Reader as it was; and an accessor call, message() included, leaves
\* the Field and every Reader there was as they were.
C30_ChildReaderIndependent ==
    /\ []EachReaderAlone
    /\ [][/\ \A r \in 1..Len(readers) :
                (r # rres'.reader \/ ares'.name # "none") =>
                    /\ readers'[r] = readers[r]
                    /\ yielded'[r] = yielded[r]
                    /\ skipped'[r] = skipped[r]
          /\ ares'.name # "none" => rres' = rres]_vars

\* message() was called twice on one Field; the two child Readers and the
\* parent were advanced to different places, the parent to its end.
C30_Witness ==
    /\ Len(readers) = 3
    /\ origin[2] = origin[3]
    /\ Passed(2) = 2 /\ Passed(3) = 1
    /\ Passed(1) = 2
    /\ rres.reader = 1 /\ rres.kind = "none" /\ rres.op = "next_field"

=============================================================================
